---- MODULE Spec2Model ----
(***************************************************************************)
(* A model of the QuickBASIC / VBDOS tokenized-file decoder (src/qb/qb.py). *)
(*                                                                         *)
(* The decoder is a push-down automaton: BasicFile.parse_binary selects a  *)
(* dialect, parse_versioned_binary decodes the main opcode stream and the  *)
(* trailing procedure records, every opcode handler of                     *)
(* BasicFileVersion.parse_opcode works on the QBParseContext (operand      *)
(* stack, positional arguments, open DEF FNs) and on the statement tree,   *)
(* and main() prints the tree.                                             *)
(*                                                                         *)
(* The input file is revealed as it is consumed: every action draws the    *)
(* bytes it reads (opcode word, operands, name-table entries) from small   *)
(* sets, and the place where a truncated file ends is drawn at the read    *)
(* that runs into it.  A Python exception is the field err of the context  *)
(* record threaded through a handler: the steps after the raise are        *)
(* skipped and the changes made before it stay.                            *)
(***************************************************************************)
EXTENDS Integers, Sequences, FiniteSets, TLC

VARIABLES
    pc,                     \* where the driver is: start, header, stream, records, returned, fatal, exited
    signature,              \* byte 0 of the file as parse_binary read it (-1: not read)
    version_number,         \* the u16 version stamp as parse_binary read it (-1: not read)
    version,                \* the dialect handler selected by parse_binary ("None" before)
    eof,                    \* the read position is at end-of-file
    stack,                  \* QBParseContext.stack
    positional_arguments,   \* QBParseContext.positional_arguments
    deffns,                 \* QBParseContext.deffns (ids of the open DefFnDeclaration objects)
    procedures,             \* BasicFile.procedures
    variable_names,         \* BasicFile.variable_names (offset -> name cache)
    main_form,              \* BasicFile.main_form is set (VBDOS)
    stdout,                 \* what was written to standard output
    stderr,                 \* what was written to standard error
    exitcode,               \* the exit status of the run (-1 while running)
    error,                  \* the message of the exception that ended decoding ("" if none)
    lastOp,                 \* the base opcode of the last handler entered (-1 if none)
    lastWord,               \* the last 16-bit opcode word read (-1 if none)
    lastRead,               \* the last bytes-read request file.read(n): <<asked, got>>
    lastPop,                \* the last QBParseContext.pop(count), count > 0: <<asked, got>>
    table_reads,            \* name-table offset -> times its entry was read from the file
    lastOffset,             \* the last u16 name offset a handler read from the stream (-1: none)
    lastData,               \* the data operand (mask, flags, text, value) of the last handler that decoded one
    lastRest,               \* bytes left when the record loop last tested its condition (-1: never)
    nops,                   \* opcodes decoded so far
    limit,                  \* opcodes the model follows a run for
    tell,                   \* file.tell() from the first opcode stream on, in a file of a given size
    file_end,               \* the size of the file (end in parse_versioned_binary; 0: not given)
    stream_end              \* length + start of the opcode stream being decoded

vars == <<pc, signature, version_number, version, eof, stack, positional_arguments, deffns, procedures,
          variable_names, main_form, stdout, stderr, exitcode, error, lastOp,
          lastWord, lastRead, lastPop, table_reads, lastOffset, lastData, lastRest, nops, limit,
          tell, file_end, stream_end>>

-----------------------------------------------------------------------------
(* Bounds of the model *)

\* opcodes decoded in one run
MaxOps == 3
\* procedures of one file (the main one included)
MaxProcs == 2

\* "enough bytes left": the file does not end inside the current handler
Plenty == 99

-----------------------------------------------------------------------------
(* Values of the syntax tree *)

None == [cls |-> "None"]

IsNone(v) == v.cls = "None"

EmptyStatement == [cls |-> "EmptyStatement"]

DecimalInteger(value) == [cls |-> "DecimalInteger", value |-> value]

Identifier(name, offset) ==
    [cls |-> "Identifier", name |-> name, offset |-> offset, suffix |-> "None"]

AssignmentStatement(target, value, keyword) ==
    [cls |-> "AssignmentStatement", target |-> target, value |-> value, keyword |-> keyword]

CallStatement(name, args, explicit) ==
    [cls |-> "CallStatement", name |-> name, args |-> args, explicit |-> explicit]

CallsStatement(name, args) ==
    [cls |-> "CallsStatement", name |-> name, args |-> args]

GotoStatement(target, implicit) ==
    [cls |-> "GotoStatement", target |-> target, implicit |-> implicit]

ExitStatement(kind) == [cls |-> "ExitStatement", kind |-> kind]

EndDeclaration(kind) == [cls |-> "EndDeclaration", kind |-> kind]

LineIfStatementNoDefault(condition, then_branch) ==
    [cls |-> "LineIfStatement", condition |-> condition,
     then_branch |-> then_branch, else_branch |-> None]

LineIfStatement(condition, then_branch) ==
    [cls |-> "LineIfStatement", condition |-> condition,
     then_branch |-> IF IsNone(then_branch) THEN EmptyStatement ELSE then_branch,
     else_branch |-> None]

ElseStatement(action) ==
    [cls |-> "ElseStatement", action |-> IF IsNone(action) THEN EmptyStatement ELSE action]

DefFnDeclaration(id, name) ==
    [cls |-> "DefFnDeclaration", id |-> id, name |-> name, definition |-> None]

VariableDeclaration ==
    [cls |-> "VariableDeclaration", name |-> None, as_type |-> "None",
     dimensions |-> None, as_column |-> 0]

VariableDeclarationStatement ==
    [cls |-> "VariableDeclarationStatement", kind |-> "None", common_block_name |-> None,
     mode |-> "None", declarations |-> <<>>]

ErrorInLine(text) == [cls |-> "ErrorInLine", text |-> text, rest_of_line |-> None]

Comment(text, column) == [cls |-> "Comment", text |-> text, column |-> column]

Line(label, indent) ==
    [statements |-> <<EmptyStatement>>, label |-> label, indent |-> indent,
     comment |-> None]

Procedure(name, static) ==
    [name |-> name, kind |-> "None", static |-> static, lines |-> <<>>]

\* ResumeStatement(target); ResumeStatement() keeps the default Missing
Missing == [cls |-> "Missing"]

ResumeStatement(target) == [cls |-> "ResumeStatement", target |-> target]

OnErrorGotoStatement(target, local) ==
    [cls |-> "OnErrorGotoStatement", target |-> target, local |-> local]

DefTypeDeclaration(as_type, letters) ==
    [cls |-> "DefTypeDeclaration", as_type |-> as_type, letters |-> letters]

OpenStatement(filename, filenumber, mode, access, lock, length) ==
    [cls |-> "OpenStatement", filename |-> filename, filenumber |-> filenumber,
     mode |-> mode, access |-> access, lock |-> lock, length |-> length]

\* FloatLiteral(value, suffix); the value is the decimal m * 10^e of its shortest
\* representation (m without trailing zero), or the infinity
FloatLiteral(value, suffix) == [cls |-> "FloatLiteral", value |-> value, suffix |-> suffix]

\* ArrayElement(name, *args): args is the list of subscripts, or None with
\* implicit_dims
ArrayElement(name, args) == [cls |-> "ArrayElement", name |-> name, args |-> args]

FieldSelection(arg, field) == [cls |-> "FieldSelection", arg |-> arg, field |-> field]

BinaryOperator(operator, argument1, argument2) ==
    [cls |-> "BinaryOperator", operator |-> operator, arguments |-> <<argument1, argument2>>]

\* PrintStatement(kind): no file number, no items
NewPrintStatement(kind) ==
    [cls |-> "PrintStatement", kind |-> kind, filenumber |-> None, items |-> <<>>]

PrintItem(value, separator) == [cls |-> "PrintItem", value |-> value, separator |-> separator]

PrintControl(mode, value) == [cls |-> "PrintControl", mode |-> mode, value |-> value]

CoordinatePair(x, y, step) == [cls |-> "CoordinatePair", x |-> x, y |-> y, step |-> step]

CircleStatement(center, radius, color, start, end, aspect) ==
    [cls |-> "CircleStatement", center |-> center, radius |-> radius, color |-> color,
     start |-> start, end |-> end, aspect |-> aspect]

BuiltinFunctionCall(name, args) == [cls |-> "BuiltinFunctionCall", name |-> name, args |-> args]

BuiltinStatement(name, args) == [cls |-> "BuiltinStatement", name |-> name, args |-> args]

UnaryOperator(operator, argument) ==
    [cls |-> "UnaryOperator", operator |-> operator, argument |-> argument]

Parentheses(argument) == [cls |-> "Parentheses", argument |-> argument]

ByValue(parameter) == [cls |-> "ByValue", parameter |-> parameter]

AsSegmented(parameter) == [cls |-> "AsSegmented", parameter |-> parameter]

-----------------------------------------------------------------------------
(* The dialects and the opcode dispatcher *)

Versions == {"QB40", "QB45", "QB70", "QB71", "VBDOS"}

\* BasicFile.parse_binary's table from the u16 version stamp to the handler class
VersionOfStampDefaulting(stamp) ==
    CASE stamp = \h0013 -> "QB40"
      [] stamp = \h0100 -> "QB45"
      [] stamp = \h0101 -> "QB71"
      [] stamp = \h0102 -> "QB71"
      [] stamp = \h0108 -> "VBDOS"
      [] OTHER -> "QB45"

VersionOfStamp(stamp) ==
    CASE stamp = \h0013 -> "QB40"
      [] stamp = \h0100 -> "QB45"
      [] stamp = \h0101 -> "QB70"
      [] stamp = \h0102 -> "QB71"
      [] stamp = \h0108 -> "VBDOS"
      [] OTHER -> "None"

get_version_stamp(v) ==
    CASE v = "QB40" -> \h0013
      [] v = "QB45" -> \h0100
      [] v = "QB70" -> \h0101
      [] v = "QB71" -> \h0102
      [] v = "VBDOS" -> \h0108

get_maximum_opcode(v) ==
    CASE v = "QB40" -> \h01AF
      [] v = "QB45" -> \h017D
      [] v = "QB70" -> \h01A7
      [] v = "QB71" -> \h01A8
      [] v = "VBDOS" -> \h01D1

get_maximum_builtin_type(v) ==
    CASE v \in {"QB40", "QB45"} -> 5
      [] v \in {"QB70", "QB71"} -> 6
      [] v = "VBDOS" -> 7

\* get_builtin_type: "Invalid" stands for the raise of "Invalid built-in type"
get_builtin_type(v, index) ==
    IF v \in {"QB40", "QB45"}
    THEN CASE index = 1 -> "INTEGER" [] index = 2 -> "LONG" [] index = 3 -> "SINGLE"
           [] index = 4 -> "DOUBLE" [] index = 5 -> "STRING" [] OTHER -> "Invalid"
    ELSE IF v \in {"QB70", "QB71"}
    THEN CASE index = 1 -> "INTEGER" [] index = 2 -> "LONG" [] index = 3 -> "SINGLE"
           [] index = 4 -> "DOUBLE" [] index = 5 -> "CURRENCY" [] index = 6 -> "STRING"
           [] OTHER -> "Invalid"
    ELSE CASE index = 1 -> "INTEGER" [] index = 2 -> "LONG" [] index = 3 -> "SINGLE"
           [] index = 4 -> "DOUBLE" [] index = 5 -> "CURRENCY" [] index = 6 -> "DOUBLE"
           [] index = 7 -> "STRING" [] OTHER -> "Invalid"

\* The opcodes with an "elif opcode == ..." branch in BasicFileVersion.parse_opcode,
\* as maximal ranges <<first, last>>
HandlerRanges ==
    { <<\h0000, \h0000>>, <<\h0004, \h0007>>, <<\h0009, \h0023>>, <<\h0025, \h0033>>,
      <<\h0036, \h0042>>, <<\h0044, \h0049>>, <<\h004C, \h004D>>, <<\h004F, \h0059>>,
      <<\h005B, \h005B>>, <<\h005D, \h005E>>, <<\h0061, \h0074>>, <<\h0076, \h0076>>,
      <<\h007D, \h008A>>, <<\h008F, \h0097>>, <<\h0099, \h0099>>, <<\h009F, \h00A0>>,
      <<\h00A5, \h00A6>>, <<\h00AC, \h00AC>>, <<\h00B4, \h00B6>>, <<\h00B8, \h00B8>>,
      <<\h00BB, \h00C0>>, <<\h00C2, \h00C4>>, <<\h00C8, \h00CA>>, <<\h00D0, \h00D1>>,
      <<\h00D8, \h00DB>>, <<\h00E2, \h00E3>>, <<\h00E6, \h00E6>>, <<\h00F2, \h00F3>>,
      <<\h00F5, \h00F8>>, <<\h00FB, \h00FB>>, <<\h00FD, \h0104>>, <<\h0108, \h0108>>,
      <<\h015E, \h017A>>, <<\h017C, \h017E>>, <<\h0185, \h0185>>, <<\h0196, \h0196>>,
      <<\h0198, \h019A>>, <<\h019F, \h019F>>, <<\h01A8, \h01A8>>, <<\h01AA, \h01AA>>,
      <<\h01C1, \h01C2>>, <<\h01C7, \h01D1>> }

\* The keys of BasicFileVersion.BUILTINS, as maximal ranges <<first, last>>
BUILTINS ==
    { <<\h0043, \h0043>>, <<\h004E, \h004E>>, <<\h0075, \h0075>>, <<\h0077, \h007A>>,
      <<\h009A, \h009E>>, <<\h00A1, \h00A4>>, <<\h00A7, \h00AB>>, <<\h00AD, \h00B3>>,
      <<\h00B7, \h00B7>>, <<\h00B9, \h00BA>>, <<\h00C1, \h00C1>>, <<\h00C5, \h00C7>>,
      <<\h00CB, \h00CF>>, <<\h00D2, \h00D7>>, <<\h00DC, \h00E1>>, <<\h00E4, \h00E5>>,
      <<\h00E7, \h00F1>>, <<\h00F4, \h00F4>>, <<\h00F9, \h00FA>>, <<\h00FC, \h00FC>>,
      <<\h0105, \h0107>>, <<\h0109, \h015D>>, <<\h017B, \h017B>>, <<\h017F, \h0184>>,
      <<\h0186, \h0195>>, <<\h0197, \h0197>>, <<\h019B, \h019E>>, <<\h01A0, \h01A7>>,
      <<\h01AB, \h01C0>>, <<\h01C3, \h01C6>> }

InRanges(o, ranges) == \E r \in ranges : r[1] <= o /\ o <= r[2]

\* What a dispatch comes to: the handler branch entered (op), its parameter, or
\* the raise of "Invalid opcode" (invalid).  builtin: op is served by the BUILTINS
\* fallback.  The two handlers of the QB40 dispatcher itself are op = QB40Local + index.
QB40Local == 4096

Invalid == [invalid |-> TRUE, op |-> -1, parameter |-> 0, builtin |-> FALSE]

\* BasicFileVersion.parse_opcode: mask, range check, handler chain, builtin fallback
BaseDispatchNoMaximum(v, opcode, parameter) ==
    LET o == opcode % 1024
    IN  IF InRanges(o, HandlerRanges)
        THEN [invalid |-> FALSE, op |-> o, parameter |-> parameter, builtin |-> FALSE]
        ELSE IF InRanges(o, BUILTINS)
        THEN [invalid |-> FALSE, op |-> o, parameter |-> parameter, builtin |-> TRUE]
        ELSE Invalid

BaseDispatch(v, opcode, parameter) ==
    LET o == opcode % 1024
    IN  IF o > get_maximum_opcode(v) THEN Invalid
        ELSE IF InRanges(o, HandlerRanges)
        THEN [invalid |-> FALSE, op |-> o, parameter |-> parameter, builtin |-> FALSE]
        ELSE IF InRanges(o, BUILTINS)
        THEN [invalid |-> FALSE, op |-> o, parameter |-> parameter, builtin |-> TRUE]
        ELSE Invalid

\* a dispatcher that passes the 9-bit index on unchanged
QB40DispatchFlat(v, word) == BaseDispatch(v, word % 512, word \div 512)

\* BasicFileVersionQB40.parse_opcode: 9-bit index, 7-bit parameter, renumbering
QB40Dispatch(v, word) ==
    LET parameter == word \div 512
        o == word % 512
    IN  IF o > get_maximum_opcode(v) THEN Invalid
        ELSE CASE o <= \h000A -> BaseDispatch(v, o, parameter)
          [] o \in \h000B..\h0010 -> BaseDispatch(v, \h000B, o - \h000B)
          [] o \in \h0011..\h0016 -> BaseDispatch(v, \h000C, o - \h0011)
          [] o \in \h0017..\h001C -> BaseDispatch(v, \h000D, o - \h0017)
          [] o \in \h001D..\h0022 -> BaseDispatch(v, \h000E, o - \h001D)
          [] o \in \h0023..\h0028 -> BaseDispatch(v, \h000F, o - \h0023)
          [] o \in \h0029..\h002E -> BaseDispatch(v, \h0010, o - \h0029)
          [] o \in \h002F..\h0034 -> BaseDispatch(v, \h0011, o - \h002F)
          [] o \in \h0035..\h003A -> BaseDispatch(v, \h0012, o - \h0035)
          [] o \in \h003B..\h0041 -> BaseDispatch(v, o - \h003B + \h0015, parameter)
          [] o = \h0042 -> [invalid |-> FALSE, op |-> QB40Local + o, parameter |-> parameter, builtin |-> FALSE]
          [] o = \h0044 -> [invalid |-> FALSE, op |-> QB40Local + o, parameter |-> parameter, builtin |-> FALSE]
          [] o \in \h0045..\h0130 -> BaseDispatch(v, o - \h0045 + \h001C, parameter)
          [] o = \h0131 -> BaseDispatch(v, \h0108, 4)
          [] o = \h0132 -> BaseDispatch(v, \h0109, parameter)
          [] o = \h0133 -> BaseDispatch(v, \h0108, 1)
          [] o = \h0134 -> BaseDispatch(v, \h0108, 2)
          [] o = \h0135 -> BaseDispatch(v, \h010A, parameter)
          [] o = \h0136 -> BaseDispatch(v, \h010B, parameter)
          [] o = \h0137 -> BaseDispatch(v, \h0108, 3)
          [] o \in \h0138..\h018F -> BaseDispatch(v, o - \h0138 + \h010C, parameter)
          [] o \in \h0190..\h019A -> BaseDispatch(v, \h0164, o - \h0190)
          [] o \in \h019B..\h01AF -> BaseDispatch(v, o - \h019B + \h0165, parameter)
          [] OTHER -> Invalid

\* The dialect's parse_opcode entry point on one 16-bit opcode word
Dispatch(v, word) ==
    IF v = "QB40" THEN QB40Dispatch(v, word)
    ELSE BaseDispatch(v, word, word \div 1024)

-----------------------------------------------------------------------------
(* Sequences *)

Last(s) == s[Len(s)]

Front(s) == SubSeq(s, 1, Len(s) - 1)

SetLast(s, v) == [s EXCEPT ![Len(s)] = v]

Min(a, b) == IF a < b THEN a ELSE b

-----------------------------------------------------------------------------
(* The context a handler works on.  err is the exception raised ("" if none), *)
(* avail the bytes between the read position and the end of the file (Plenty: *)
(* the file does not end here), tavail the same at the name-table entry read. *)

Cxt(avail, tavail) ==
    [stack |-> stack, positional_arguments |-> positional_arguments, deffns |-> deffns,
     procedures |-> procedures, variable_names |-> variable_names,
     avail |-> avail, tavail |-> tavail, hit |-> FALSE, thit |-> FALSE,
     err |-> "", ret |-> None,
     lastRead |-> lastRead, lastPop |-> lastPop, table_reads |-> table_reads,
     lastOffset |-> lastOffset, lastData |-> lastData]

Raise(c, msg) == IF c.err # "" THEN c ELSE [c EXCEPT !.err = msg]

\* read8 .. readf64: struct.unpack of file.read(n) raises when fewer than n bytes come
ReadFixed(c, n) ==
    IF c.err # "" \/ c.avail = Plenty THEN c
    ELSE IF c.avail < n
    THEN [c EXCEPT !.avail = 0, !.hit = TRUE, !.err = "struct.error"]
    ELSE [c EXCEPT !.avail = @ - n]

read8(c) == ReadFixed(c, 1)

read16(c) == ReadFixed(c, 2)

read32(c) == ReadFixed(c, 4)

\* file.read(n): returns the bytes that are left, at most n, and never raises;
\* ret is the number of bytes returned
FileRead(c, n) ==
    IF c.err # "" THEN c
    ELSE LET got == IF c.avail = Plenty THEN n ELSE Min(n, c.avail)
         IN  [c EXCEPT !.avail = IF @ = Plenty THEN Plenty ELSE @ - got,
                       !.hit = @ \/ got < n,
                       !.ret = got, !.lastRead = <<n, got>>]

\* file.read(n) whose result is dropped (padding)
FileSkip(c, n) ==
    IF c.err # "" THEN c
    ELSE LET got == IF c.avail = Plenty THEN n ELSE Min(n, c.avail)
         IN  [c EXCEPT !.avail = IF @ = Plenty THEN Plenty ELSE @ - got,
                       !.hit = @ \/ got < n]

\* reads: u16 length, the bytes, one padding byte after an odd length;
\* ret is the length of the text returned
reads(c, length) ==
    LET c1 == read16(c)
        c2 == FileRead(c1, length)
        c3 == IF length % 2 # 0 THEN FileSkip(c2, 1) ELSE c2
    IN  [c3 EXCEPT !.ret = c2.ret]

\* a clear that empties the operand stack only
clearStack(c) ==
    IF c.err # "" THEN c
    ELSE [c EXCEPT !.stack = <<>>]

\* QBParseContext.clear
clear(c) ==
    IF c.err # "" THEN c
    ELSE [c EXCEPT !.stack = <<>>, !.positional_arguments = {}]

\* QBParseContext.push
push(c, value) ==
    IF c.err # "" THEN c ELSE [c EXCEPT !.stack = Append(@, value)]

\* QBParseContext.pop(): list.pop() raises IndexError on an empty list
pop1(c) ==
    IF c.err # "" THEN c
    ELSE IF Len(c.stack) = 0 THEN Raise(c, "IndexError")
    ELSE [c EXCEPT !.stack = Front(@), !.ret = Last(c.stack)]

\* QBParseContext.pop(count): the slice stack[-count:] is the whole stack when
\* count exceeds its length; ret is the list returned
pop(c, count) ==
    IF c.err # "" THEN c
    ELSE IF count > 0
    THEN LET n == Len(c.stack)
             k == Min(count, n)
         IN  [c EXCEPT !.stack = SubSeq(@, 1, n - k),
                       !.ret = SubSeq(c.stack, n - k + 1, n),
                       !.lastPop = <<count, k>>]
    ELSE [c EXCEPT !.ret = <<>>]

\* QBParseContext.set_argument / get_argument
set_argument(c, position, value) ==
    IF c.err # "" THEN c
    ELSE IF \E a \in c.positional_arguments : a.position = position
    THEN Raise(c, "AssertionError")
    ELSE [c EXCEPT !.positional_arguments = @ \cup {[position |-> position, value |-> value]}]

get_argument(c, position) ==
    IF \E a \in c.positional_arguments : a.position = position
    THEN (CHOOSE a \in c.positional_arguments : a.position = position).value
    ELSE None

-----------------------------------------------------------------------------
(* The current procedure, line and statement *)

CurProc(c) == Last(c.procedures)

\* procedures[-1].lines[-1] raises IndexError before the first begin-line opcode
HasLine(c) == Len(CurProc(c).lines) > 0

CurLine(c) == Last(CurProc(c).lines)

CurStatement(c) == Last(CurLine(c).statements)

SetCurLine(c, line) ==
    [c EXCEPT !.procedures = SetLast(@, [CurProc(c) EXCEPT !.lines = SetLast(@, line)])]

SetCurStatement(c, statement) ==
    SetCurLine(c, [CurLine(c) EXCEPT !.statements = SetLast(@, statement)])

\* QBParseContext.begin_line
begin_line(c, label, indent) ==
    IF c.err # "" THEN c
    ELSE [c EXCEPT !.procedures =
            SetLast(@, [CurProc(c) EXCEPT !.lines = Append(@, Line(label, indent))])]

\* QBParseContext.new_statement (Line.add_statement)
new_statement(c) ==
    IF c.err # "" THEN c
    ELSE IF ~HasLine(c) THEN Raise(c, "IndexError")
    ELSE SetCurLine(c, [CurLine(c) EXCEPT !.statements = Append(@, EmptyStatement)])

\* The body of QBParseContext.put_statement on the statement `value` found in the
\* slot: res is "ok" (node is the slot's new content), "false" (return False) or
\* "raise" ("Statements cannot be combined").  top: into is None.
RECURSIVE PutSlot(_, _, _)
PutSlot(value, statement, top) ==
    IF value.cls = "EmptyStatement"
    THEN [res |-> "ok", node |-> statement]
    ELSE IF value.cls = "ErrorInLine" /\ IsNone(value.rest_of_line)
    THEN [res |-> "ok", node |-> [value EXCEPT !.rest_of_line = statement]]
    ELSE IF value.cls = "LineIfStatement"
    THEN LET inner == IF IsNone(value.else_branch) THEN value.then_branch
                      ELSE value.else_branch.action
             r == PutSlot(inner, statement, FALSE)
         IN  IF r.res = "ok"
             THEN [res |-> "ok",
                   node |-> IF IsNone(value.else_branch)
                            THEN [value EXCEPT !.then_branch = r.node]
                            ELSE [value EXCEPT !.else_branch.action = r.node]]
             ELSE IF r.res = "raise" THEN r
             ELSE IF IsNone(value.else_branch) /\ statement.cls = "ElseStatement"
             THEN [res |-> "ok", node |-> [value EXCEPT !.else_branch = statement]]
             ELSE [res |-> "raise", node |-> value]
    ELSE IF top THEN [res |-> "raise", node |-> value]
    ELSE [res |-> "false", node |-> value]

put_statement(c, statement) ==
    IF c.err # "" THEN c
    ELSE IF ~HasLine(c) THEN Raise(c, "IndexError")
    ELSE LET r == PutSlot(CurStatement(c), statement, TRUE)
         IN  IF r.res = "ok" THEN SetCurStatement(c, r.node)
             ELSE Raise(c, "Statements cannot be combined")

\* QBParseContext.put_statement_kind: ret is statements[-1] after the put
put_statement_kind(c, class, fresh) ==
    IF c.err # "" THEN c
    ELSE IF ~HasLine(c) THEN Raise(c, "IndexError")
    ELSE LET c1 == IF CurStatement(c).cls # class THEN put_statement(c, fresh) ELSE c
         IN  IF c1.err # "" THEN c1 ELSE [c1 EXCEPT !.ret = CurStatement(c1)]

\* QBParseContext.put_declaration: afterwards the last declaration of the current
\* statement is the one returned; d.declarations raises AttributeError when
\* statements[-1] is no VariableDeclarationStatement
put_declaration(c) ==
    LET c1 == put_statement_kind(c, "VariableDeclarationStatement", VariableDeclarationStatement)
    IN  IF c1.err # "" THEN c1
        ELSE IF c1.ret.cls # "VariableDeclarationStatement" THEN Raise(c1, "AttributeError")
        ELSE LET d == c1.ret
             IN  IF Len(d.declarations) = 0 \/ ~IsNone(Last(d.declarations).name)
                 THEN SetCurStatement(c1, [d EXCEPT !.declarations = Append(@, VariableDeclaration)])
                 ELSE c1

\* The declaration put_declaration returned
LastDeclaration(c) == Last(CurStatement(c).declarations)

SetLastDeclaration(c, decl) ==
    SetCurStatement(c, [CurStatement(c) EXCEPT !.declarations = SetLast(@, decl)])

\* a set_type that overwrites the type
set_typeOverwriting(c, as_type, column) ==
    IF c.err # "" THEN c
    ELSE SetLastDeclaration(c, [LastDeclaration(c) EXCEPT !.as_type = as_type,
                                                          !.as_column = column])

\* VariableDeclaration.set_type on the declaration put_declaration returned,
\* then the store to as_column
set_type(c, as_type, column) ==
    IF c.err # "" THEN c
    ELSE IF LastDeclaration(c).as_type # "None" THEN Raise(c, "AssertionError")
    ELSE SetLastDeclaration(c, [LastDeclaration(c) EXCEPT !.as_type = as_type,
                                                          !.as_column = column])

\* VariableDeclaration.set_name on the declaration put_declaration returned
set_name(c, name, dimensions) ==
    IF c.err # "" THEN c
    ELSE IF ~IsNone(LastDeclaration(c).name) THEN Raise(c, "AssertionError")
    ELSE SetLastDeclaration(c, [LastDeclaration(c) EXCEPT
            !.name = name,
            !.dimensions = IF IsNone(dimensions) THEN @ ELSE dimensions])

Dimensions(args) == [cls |-> "list", items |-> args]

-----------------------------------------------------------------------------
(* The name table *)

\* offsets of name-table entries a file refers to
Offsets == {6}

\* the offsets of the identifiers 0x000B refers to
NameOffsets == {6, 10}

\* the entries found there: a textual name, or a u16 numeric label (flag bit 1
\* set and length 2)
NameEntries ==
    { [numeric |-> FALSE, name |-> <<"A", "B">>],
      [numeric |-> TRUE, name |-> <<"1", "0">>] }

\* the entries of variables and procedures
TextEntries == { e \in NameEntries : ~e.numeric }

\* where a truncated file may end inside a name-table entry
TableAvails == {Plenty, 1, 3}

\* the entry at name_offset has been sought and read once more
CountRead(c, name_offset) ==
    [c EXCEPT !.table_reads =
        name_offset :> (IF name_offset \in DOMAIN @ THEN @[name_offset] + 1 ELSE 1) @@ @]

\* a lookup that leaves the read position behind the entry it read
ReadEntryUnrestored(c0, name_offset, entry, keep) ==
    LET c == CountRead(c0, name_offset)
        t == c.tavail
        short(n) == t # Plenty /\ t < n
    IN  IF short(2) THEN Raise([c EXCEPT !.thit = TRUE], "struct.error")
        ELSE IF entry.numeric /\ short(4)
        THEN Raise([c EXCEPT !.thit = TRUE], "struct.error")
        ELSE LET length == Len(entry.name)
                 got == IF entry.numeric \/ t = Plenty THEN length
                        ELSE Min(length, t - 2)
                 name == SubSeq(entry.name, 1, got)
             IN  [c EXCEPT !.variable_names = IF keep THEN name_offset :> name @@ @ ELSE @,
                           !.thit = got < length,
                           !.lastRead = IF entry.numeric THEN @ ELSE <<length, got>>,
                           !.avail = IF t = Plenty THEN @ ELSE t - 2 - got,
                           !.ret = Identifier(name, name_offset)]

\* the flag byte, the length byte and the name read at the entry; the name is
\* cached when keep holds
ReadEntry(c0, name_offset, entry, keep) ==
    LET c == CountRead(c0, name_offset)
        t == c.tavail
        short(n) == t # Plenty /\ t < n
    IN  IF short(2) THEN Raise([c EXCEPT !.thit = TRUE], "struct.error")
        ELSE IF entry.numeric /\ short(4)
        THEN Raise([c EXCEPT !.thit = TRUE], "struct.error")
        ELSE LET length == Len(entry.name)
                 got == IF entry.numeric \/ t = Plenty THEN length
                        ELSE Min(length, t - 2)
                 name == SubSeq(entry.name, 1, got)
             IN  [c EXCEPT !.variable_names = IF keep THEN name_offset :> name @@ @ ELSE @,
                           !.thit = got < length,
                           !.lastRead = IF entry.numeric THEN @ ELSE <<length, got>>,
                           !.ret = Identifier(name, name_offset)]

\* BasicFile.readvar without its cache: every resolution reads the entry
qb_readvarUncached(c, name_offset, entry) ==
    IF c.err # "" THEN c ELSE ReadEntry(c, name_offset, entry, FALSE)

\* BasicFile.readvar: the cached name, or flag byte, length byte and name read at
\* the entry; ret is the Identifier
qb_readvar(c, name_offset, entry) ==
    IF c.err # "" THEN c
    ELSE IF name_offset \in DOMAIN c.variable_names
    THEN [c EXCEPT !.ret = Identifier(c.variable_names[name_offset], name_offset)]
    ELSE ReadEntry(c, name_offset, entry, TRUE)

\* read16 of a name offset
ReadOffset(c, name_offset) ==
    LET c1 == read16(c)
    IN  IF c1.err # "" THEN c1 ELSE [c1 EXCEPT !.lastOffset = name_offset]

\* QBParseContext.readvar: the u16 offset, then BasicFile.readvar
readvar(c, name_offset, entry) == qb_readvar(ReadOffset(c, name_offset), name_offset, entry)

-----------------------------------------------------------------------------
(* DEF FN bookkeeping *)

RECURSIVE SetDefinitionIn(_, _, _)
SetDefinitionIn(s, id, element) ==
    CASE s.cls = "DefFnDeclaration" ->
            IF s.id = id THEN [s EXCEPT !.definition = element] ELSE s
      [] s.cls = "LineIfStatement" ->
            [s EXCEPT !.then_branch = SetDefinitionIn(s.then_branch, id, element),
                      !.else_branch = IF IsNone(s.else_branch) THEN s.else_branch
                                      ELSE SetDefinitionIn(s.else_branch, id, element)]
      [] s.cls = "ElseStatement" ->
            [s EXCEPT !.action = SetDefinitionIn(s.action, id, element)]
      [] s.cls = "ErrorInLine" ->
            IF IsNone(s.rest_of_line) THEN s
            ELSE [s EXCEPT !.rest_of_line = SetDefinitionIn(s.rest_of_line, id, element)]
      [] OTHER -> s

\* self.deffns[-1].definition = element: the store to the DefFnDeclaration object,
\* wherever in the tree put_statement placed it
SetDefinition(procs, id, element) ==
    [p \in DOMAIN procs |->
        [procs[p] EXCEPT !.lines =
            [l \in DOMAIN procs[p].lines |->
                [procs[p].lines[l] EXCEPT !.statements =
                    [k \in DOMAIN procs[p].lines[l].statements |->
                        SetDefinitionIn(procs[p].lines[l].statements[k], id, element)]]]]]

\* QBParseContext.begin_deffn
begin_deffn(c, deffn) ==
    LET c1 == put_statement(c, deffn)
    IN  IF c1.err # "" THEN c1 ELSE [c1 EXCEPT !.deffns = Append(@, deffn.id)]

\* QBParseContext.end_deffn
end_deffn(c, element) ==
    IF c.err # "" THEN c
    ELSE LET c1 == IF element.cls = "EndDeclaration" /\ element.kind = "DEF"
                   THEN put_statement(c, element)
                   ELSE IF Len(c.deffns) > 0
                   THEN [c EXCEPT !.procedures = SetDefinition(@, Last(c.deffns), element)]
                   ELSE Raise(c, "AssertionError")
         IN  IF c1.err # "" THEN c1
             ELSE IF Len(c1.deffns) > 0 THEN [c1 EXCEPT !.deffns = Front(@)]
             ELSE Raise(c1, "AssertionError")

\* QBParseContext.get_exit_kind
get_exit_kind(c) ==
    IF Len(c.deffns) > 0 THEN "DEF" ELSE CurProc(c).kind

-----------------------------------------------------------------------------
(* Printing: whether print() of a node raises (None has no print method) *)

ExprPrintRaises(e) == IsNone(e)

RECURSIVE PrintRaises(_)
PrintRaises(s) ==
    CASE s.cls = "AssignmentStatement" ->
            ExprPrintRaises(s.target) \/ ExprPrintRaises(s.value)
      [] s.cls \in {"CallStatement", "CallsStatement"} ->
            \E i \in DOMAIN s.args : ExprPrintRaises(s.args[i])
      [] s.cls = "GotoStatement" -> ExprPrintRaises(s.target)
      [] s.cls = "LineIfStatement" ->
            \/ ExprPrintRaises(s.condition)
            \/ PrintRaises(s.then_branch)
            \/ (~IsNone(s.else_branch) /\ PrintRaises(s.else_branch))
      [] s.cls = "ElseStatement" -> PrintRaises(s.action)
      [] s.cls = "DefFnDeclaration" ->
            ~IsNone(s.definition) /\ ExprPrintRaises(s.definition)
      [] s.cls = "VariableDeclarationStatement" ->
            \E i \in DOMAIN s.declarations : IsNone(s.declarations[i].name)
      [] s.cls = "ErrorInLine" ->
            ~IsNone(s.rest_of_line) /\ PrintRaises(s.rest_of_line)
      [] OTHER -> FALSE

\* Line.print
LinePrintRaises(line) ==
    \E k \in DOMAIN line.statements : PrintRaises(line.statements[k])

\* What BasicFile.print writes, an item per print() call, were no line to raise
RECURSIVE ProcedureItems(_, _, _)
ProcedureItems(procs, p, l) ==
    IF p > Len(procs) THEN <<>>
    ELSE IF l > Len(procs[p].lines) THEN ProcedureItems(procs, p + 1, 0)
    ELSE IF l = 0
    THEN (IF procs[p].kind # "None" THEN <<[t |-> "blank", raises |-> FALSE]>> ELSE <<>>)
            \o ProcedureItems(procs, p, 1)
    ELSE <<[t |-> "line", p |-> p, l |-> l, raises |-> LinePrintRaises(procs[p].lines[l])]>>
            \o ProcedureItems(procs, p, l + 1)

PrintItems(form, procs) ==
    (IF form THEN <<[t |-> "Version 1.00", raises |-> FALSE], [t |-> "form", raises |-> FALSE]>>
     ELSE <<>>) \o ProcedureItems(procs, 1, 0)

\* the items before the first one whose print raises
RECURSIVE Printed(_)
Printed(items) ==
    IF items = <<>> \/ items[1].raises THEN <<>>
    ELSE <<items[1]>> \o Printed(Tail(items))

PrintCrashes(items) == \E i \in DOMAIN items : items[i].raises

-----------------------------------------------------------------------------
(* The input alphabet *)

\* where a truncated file may end, in bytes after the current read position
MaxCut == 3

Avails == {Plenty} \cup 0..MaxCut

\* the first byte of a file
Signatures == {\hFC, \h00}

\* the u16 version stamp of a file
Stamps == {\h0013, \h0100, \h0101, \h0102, \h0108, \h0000, \h0109}

\* 16-bit opcode words: the encodings of the opcodes modelled below in the 10-bit
\* numbering (with parameter 0 and 1) and in QB40's 9-bit numbering, and words whose
\* index has no handler or lies beyond a dialect's maximum
Words ==
    { \h0000, \h0400, \h0006, \h000A, \h000B, \h040B, \h000C, \h000D, \h0016, \h0026, \h0037,
      \h0045, \h0049, \h004C, \h004F, \h0055, \h005B, \h005D, \h005E, \h00BF,
      \h0164, \h0564, \h017C, \h017D, \h0185,
      \h0011, \h0017, \h003C, \h004F, \h0060, \h006E, \h0072, \h0075, \h0078,
      \h007E, \h0084, \h0086, \h0087, \h00E8, \h0190, \h0191,
      \h0001, \h0043, \h017E, \h01A8, \h01A9, \h01B0, \h01D1, \h01D2, \h03FF, \hFFFF,
      \h0067, \h006D, \h0199, \h0090, \h0096,
      \h001B,
      \h00C9, \h00CA,
      \h0097,
      \h016B, \h016C,
      \h0092, \h0093, \h0095,
      \h0080, \h0081, \h009F }

-----------------------------------------------------------------------------
(* The driver *)

\* before parse_binary is called, on a file of one of the given sizes; the model
\* follows the run for n opcodes
InitFile(n, sizes) ==
    /\ limit = n
    /\ file_end \in sizes
    /\ tell = 0
    /\ stream_end = 0
    /\ pc = "start"
    /\ signature = -1
    /\ version_number = -1
    /\ version = "None"
    /\ eof = FALSE
    /\ stack = <<>>
    /\ positional_arguments = {}
    /\ deffns = <<>>
    /\ procedures = <<>>
    /\ variable_names = <<>>
    /\ main_form = FALSE
    /\ stdout = <<>>
    /\ stderr = <<>>
    /\ exitcode = -1
    /\ error = ""
    /\ lastOp = -1
    /\ lastWord = -1
    /\ lastRead = <<0, 0>>
    /\ lastPop = <<0, 0>>
    /\ table_reads = <<>>
    /\ lastOffset = -1
    /\ lastData = <<>>
    /\ lastRest = -1
    /\ nops = 0

\* before parse_binary is called on a file whose size is not given
InitWith(n) == InitFile(n, {0})

Init == InitWith(MaxOps)

\* a run followed for one opcode more
InitLong == InitWith(MaxOps + 1)

\* a run followed for two opcodes more
InitLonger == InitWith(MaxOps + 2)

\* An exception nobody catches: the interpreter writes the traceback to standard
\* error and exits with status 1
Fatal(msg) ==
    /\ pc' = "fatal"
    /\ error' = msg
    /\ stderr' = Append(stderr, [t |-> "traceback"])
    /\ exitcode' = 1
    /\ UNCHANGED <<limit, tell, file_end, stream_end, lastRest, version, eof, stack, positional_arguments, deffns, procedures,
                   variable_names, main_form, stdout, lastOp, lastWord, lastRead,
                   lastPop, table_reads, lastOffset, lastData, nops>>

\* BasicFile.parse_binary up to the construction of the BasicFile, on a file of
\* size bytes (3: three or more) that starts with a signature and a stamp drawn
\* from the given sets
ParseBinarySized(signatures, stamps, sizes) ==
    /\ pc = "start"
    /\ \E size \in sizes, byte0 \in signatures, stamp \in stamps :
          /\ signature' = IF size < 1 THEN -1 ELSE byte0
          /\ version_number' = IF size < 3 \/ byte0 # \hFC THEN -1 ELSE stamp
          /\ IF size < 1 THEN Fatal("struct.error")
             ELSE IF byte0 # \hFC THEN Fatal("Invalid signature")
             ELSE IF size < 3 THEN Fatal("struct.error")
             ELSE IF VersionOfStamp(stamp) = "None" THEN Fatal("Invalid file version")
             ELSE /\ pc' = "header"
                  /\ version' = VersionOfStamp(stamp)
                  /\ procedures' = <<Procedure(0, FALSE)>>
                  /\ UNCHANGED <<limit, tell, file_end, stream_end, lastRest, eof, stack, positional_arguments, deffns,
                                 variable_names,
                                 main_form, stdout, stderr, exitcode, error, lastOp,
                                 lastWord, lastRead, lastPop, table_reads, lastOffset, lastData, nops>>

\* on a file whose size is not given
ParseBinary(signatures, stamps) == ParseBinarySized(signatures, stamps, 0..3)

\* any file
parse_binary == ParseBinary(Signatures, Stamps)

\* a QuickBASIC 4.5 or a Visual Basic for DOS file
parse_binary_QB45_VBDOS == ParseBinary({\hFC}, {\h0100, \h0108})

\* a file of any of the five dialects
parse_binary_dialects == ParseBinary({\hFC}, {\h0013, \h0100, \h0101, \h0102, \h0108})

\* a QuickBASIC 4.5 file
parse_binary_QB45 == ParseBinary({\hFC}, {\h0100})

\* The except clause of parse_binary: print(traceback.format_exc()), return qbfile
CaughtInsideLoop(c) ==
    /\ pc' = "records"
    /\ error' = c.err
    /\ stdout' = Append(stdout, [t |-> "traceback"])

Caught(c) ==
    /\ pc' = "returned"
    /\ error' = c.err
    /\ stdout' = Append(stdout, [t |-> "traceback"])

\* The state a handler leaves behind
Store(c) ==
    /\ c.avail = Plenty \/ c.hit
    /\ c.tavail = Plenty \/ c.thit
    /\ stack' = c.stack
    /\ positional_arguments' = c.positional_arguments
    /\ deffns' = c.deffns
    /\ procedures' = c.procedures
    /\ variable_names' = c.variable_names
    /\ lastRead' = c.lastRead
    /\ lastPop' = c.lastPop
    /\ table_reads' = c.table_reads
    /\ lastOffset' = c.lastOffset
    /\ lastData' = c.lastData
    /\ eof' = c.hit

\* parse_versioned_binary from its first line to the u16 length parse_opcodes reads:
\* the procedure list is reset, the header parsed (VBDOS: the u16 at 0x14 extends the
\* header and, non-zero, has the form resource parsed)
parse_header ==
    /\ pc = "header"
    /\ \E avail \in {Plenty, 0, 2}, header_extra \in {0, 1} :
          LET c0 == [Cxt(avail, Plenty) EXCEPT !.procedures = <<Procedure(0, FALSE)>>]
              c1 == IF version = "VBDOS" THEN read16(c0) ELSE c0
              c2 == read16(c1)
              c3 == read16(c2)
          IN  /\ Store(c3)
              /\ main_form' = (version = "VBDOS" /\ c1.err = "" /\ header_extra > 0)
              /\ IF c3.err # "" THEN Caught(c3)
                 ELSE pc' = "stream" /\ UNCHANGED <<error, stdout>>
              /\ UNCHANGED <<limit, tell, file_end, stream_end, lastRest, signature, version_number, version, stderr, exitcode, lastOp, lastWord, nops>>

\* A handler of parse_opcode has run (the loop of parse_opcodes read its word)
Enter == pc = "stream" /\ nops < limit /\ ~eof

Commit(w, c) ==
    /\ Store(c)
    /\ lastOp' = Dispatch(version, w).op
    /\ lastWord' = w
    /\ nops' = nops + 1
    /\ IF c.err # "" THEN Caught(c)
       ELSE pc' = "stream" /\ UNCHANGED <<error, stdout>>
    /\ UNCHANGED <<limit, tell, file_end, stream_end, lastRest, signature, version_number, version, main_form, stderr, exitcode>>

\* parse_opcodes: read16 of the next opcode word runs into the end of the file
parse_opcodes_eof ==
    /\ pc = "stream"
    /\ \E avail \in 0..1 :
          LET c == read16(Cxt(avail, Plenty))
          IN  /\ Store(c)
              /\ Caught(c)
              /\ UNCHANGED <<limit, tell, file_end, stream_end, lastRest, signature, version_number, version, main_form, stderr, exitcode, lastOp, lastWord, nops>>

\* parse_opcodes: the loop ends, file.tell() has reached length + start
parse_opcodes_end ==
    /\ pc = "stream"
    /\ pc' = "records"
    /\ UNCHANGED <<limit, tell, file_end, stream_end, lastRest, signature, version_number, version, eof, stack, positional_arguments, deffns, procedures,
                   variable_names, main_form, stdout, stderr, exitcode, error,
                   lastOp, lastWord, lastRead, lastPop, table_reads, lastOffset, lastData, nops>>

\* bytes left in the file when an opcode stream has ended
Rests == {0, 16, 17, Plenty}

\* a loop condition that also holds with exactly 16 bytes left
RecordFollowsFrom16(rest) == rest >= 16

\* while file.tell() + 16 < end
RecordFollows(rest) == rest > 16

\* The loop of parse_versioned_binary: with more than 16 bytes left a procedure
\* record is read and its stream entered, else parse_binary returns
procedure_record ==
    /\ pc = "records"
    /\ \E rest \in Rests, name_length \in {2}, flags \in {\h00, \h80} :
          /\ eof => rest = 0
          /\ rest = Plenty => Len(procedures) < MaxProcs
          /\ lastRest' = rest
          /\ IF RecordFollows(rest)
             THEN LET avail == IF rest = Plenty THEN Plenty ELSE rest - 16
                      c1 == FileSkip(Cxt(avail, Plenty), 1)
                      c2 == read16(c1)
                      c3 == FileRead(c2, name_length)
                      c4 == FileSkip(c3, 2)
                      c5 == read8(c4)
                      c6 == IF c5.err # "" THEN c5
                            ELSE [c5 EXCEPT !.procedures =
                                    Append(@, Procedure(c3.ret, flags >= \h80))]
                      c7 == read16(c6)
                  IN  /\ Store(c7)
                      /\ IF c7.err # "" THEN Caught(c7)
                         ELSE pc' = "stream" /\ UNCHANGED <<error, stdout>>
             ELSE /\ pc' = "returned"
                  /\ UNCHANGED <<eof, stack, positional_arguments, deffns, procedures,
                                 variable_names, lastRead, lastPop, table_reads, lastOffset, lastData, error, stdout>>
          /\ UNCHANGED <<limit, tell, file_end, stream_end, signature, version_number, version, main_form, stderr, exitcode, lastOp, lastWord, nops>>

\* main: qbfile.print() on what parse_binary returned; a raise inside print is not
\* caught: traceback on standard error, exit status 1
main_print ==
    /\ pc = "returned"
    /\ LET items == PrintItems(main_form, procedures)
       IN  /\ stdout' = stdout \o [i \in DOMAIN Printed(items) |-> [t |-> Printed(items)[i].t]]
           /\ IF PrintCrashes(items)
              THEN exitcode' = 1 /\ stderr' = Append(stderr, [t |-> "traceback"])
              ELSE exitcode' = 0 /\ stderr' = stderr
    /\ pc' = "exited"
    /\ UNCHANGED <<limit, tell, file_end, stream_end, lastRest, signature, version_number, version, eof, stack, positional_arguments, deffns, procedures,
                   variable_names, main_form, error, lastOp, lastWord, lastRead,
                   lastPop, table_reads, lastOffset, lastData, nops>>

-----------------------------------------------------------------------------
(* The opcode handlers of BasicFileVersion.parse_opcode *)

\* name.suffix = self.get_builtin_type(parameter) on the identifier in ret
set_suffix(c, v, index) ==
    IF c.err # "" THEN c
    ELSE IF get_builtin_type(v, index) = "Invalid" THEN Raise(c, "Invalid built-in type")
    ELSE [c EXCEPT !.ret.suffix = get_builtin_type(v, index)]

\* QBParseContext.put_assignment_statement
put_assignment_statement(c, statement) ==
    IF c.err # "" THEN c
    ELSE IF ~HasLine(c) THEN Raise(c, "IndexError")
    ELSE LET cur == CurStatement(c)
         IN  IF cur.cls = "ConstDeclaration"
             THEN SetCurStatement(c, [cur EXCEPT !.assignments = Append(@, statement)])
             ELSE IF cur.cls = "AssignmentStatement" /\ cur.keyword = "LET"
                     /\ IsNone(cur.target) /\ IsNone(cur.value)
             THEN SetCurStatement(c, [statement EXCEPT !.keyword = "LET"])
             ELSE put_statement(c, statement)

\* 0x0000: begin line, indent = parameter
H0000(c, parameter) == begin_line(clear(c), None, parameter)

\* 0x0006: new statement
H0006(c) == new_statement(c)

\* 0x000B: an identifier, with the type suffix of a non-zero parameter
H000B(c, v, parameter, name_offset, entry) ==
    LET c1 == readvar(c, name_offset, entry)
        c2 == IF parameter # 0 THEN set_suffix(c1, v, parameter) ELSE c1
    IN  push(c2, c2.ret)

\* 0x000C: assignment to an identifier
H000C(c, v, parameter, name_offset, entry) ==
    LET c1 == readvar(c, name_offset, entry)
        c2 == IF parameter # 0 THEN set_suffix(c1, v, parameter) ELSE c1
        c3 == pop1(c2)
    IN  put_assignment_statement(c3, AssignmentStatement(c2.ret, c3.ret, "None"))

\* 0x000D: the name of a declarator
H000D(c, v, parameter, name_offset, entry) ==
    LET c1 == readvar(c, name_offset, entry)
        c2 == IF parameter # 0 THEN set_suffix(c1, v, parameter) ELSE c1
    IN  set_name(put_declaration(c2), c2.ret, None)

\* 0x0016: the builtin type of a declarator; the callee put_declaration() runs
\* before the argument get_builtin_type(typeidx) is evaluated
H0016(c, v, typeidx, column) ==
    LET c1 == read16(read16(c))
        c2 == put_declaration(c1)
        c3 == IF get_builtin_type(v, typeidx) = "Invalid"
              THEN Raise(c2, "Invalid built-in type") ELSE c2
    IN  set_type(c3, get_builtin_type(v, typeidx), column)

\* 0x0026: close a DEF FN with its body expression
H0026(c) ==
    LET c1 == pop1(c)
        c2 == end_deffn(c1, c1.ret)
    IN  read16(read16(c2))

\* 0x0045: DEF FN header (no suffix flag, argcount arguments without type)
H0045(c, id, name_offset, entry) ==
    LET c1 == read16(read16(c))
        c2 == readvar(c1, name_offset, entry)
        c3 == read16(read16(c2))
    IN  begin_deffn(c3, DefFnDeclaration(id, c2.ret))

\* 0x004F: END DEF
H004F(c) ==
    read16(read16(put_statement(c, EndDeclaration("DEF"))))

\* 0x00BF: the LET placeholder
H00BF(c) == put_statement(c, AssignmentStatement(None, None, "LET"))

\* 0x0164: push the parameter as a decimal literal
H0164(c, parameter) == push(c, DecimalInteger(parameter))

\* 0x0037: CALL with argcount arguments
H0037(c, argcount, name_offset, entry) ==
    LET c1 == readvar(read16(c), name_offset, entry)
        c2 == pop(c1, argcount)
    IN  put_statement(c2, CallStatement(c1.ret, c2.ret, TRUE))

\* 0x0049: ELSE of a single-line IF
H0049(c) == read16(put_statement(c, ElseStatement(None)))

\* 0x004C: ELSE with an implicit GOTO
H004C(c, name_offset, entry) ==
    LET c1 == readvar(read16(pop1(c)), name_offset, entry)
    IN  put_statement(c1, ElseStatement(GotoStatement(c1.ret, TRUE)))

\* 0x0055: EXIT
H0055(c) ==
    IF c.err # "" THEN c
    ELSE IF get_exit_kind(c) = "None" THEN Raise(c, "AssertionError")
    ELSE read16(put_statement(c, ExitStatement(get_exit_kind(c))))

\* 0x005B: GOTO
H005B(c, name_offset, entry) ==
    LET c1 == readvar(c, name_offset, entry)
    IN  put_statement(c1, GotoStatement(c1.ret, FALSE))

\* 0x005D: single-line IF ... THEN
H005D(c) ==
    LET c1 == pop1(c)
    IN  read16(put_statement(c1, LineIfStatement(c1.ret, None)))

\* 0x005E: single-line IF ... THEN with an implicit GOTO
H005E(c, name_offset, entry) ==
    LET c1 == pop1(c)
        c2 == readvar(c1, name_offset, entry)
    IN  put_statement(c2, LineIfStatement(c1.ret, GotoStatement(c2.ret, TRUE)))

\* 0x0185: currency literal (QB70+)
H0185(c) ==
    LET c1 == ReadFixed(c, 8)
    IN  push(c1, [cls |-> "CurrencyLiteral", value |-> 0])

\* 0x0067, 0x0199: ON [LOCAL] ERROR; from QB70 on the offsets 0xFFFF and 0xFFFE
\* stand for GOTO 0 and RESUME NEXT, before QB70 every offset is looked up
H0067(c, v, opcode, target_offset, entry) ==
    LET c1 == IF get_version_stamp(v) >= \h0101
              THEN LET r == ReadOffset(c, target_offset)
                   IN  IF target_offset = \hFFFF THEN [r EXCEPT !.ret = DecimalInteger(0)]
                       ELSE IF target_offset = \hFFFE THEN [r EXCEPT !.ret = None]
                       ELSE qb_readvar(r, target_offset, entry)
              ELSE readvar(c, target_offset, entry)
    IN  put_statement(c1, OnErrorGotoStatement(c1.ret, opcode = \h0199))

\* 0x006D: RESUME with a target; the offset 0xFFFF stands for RESUME 0
H006D(c, label_offset, entry) ==
    LET r == ReadOffset(c, label_offset)
        c1 == IF label_offset # \hFFFF THEN qb_readvar(r, label_offset, entry)
              ELSE [r EXCEPT !.ret = DecimalInteger(0)]
    IN  put_statement(c1, ResumeStatement(c1.ret))

\* the handler has decoded the data operand it read
KeepData(c, data) == IF c.err # "" THEN c ELSE [c EXCEPT !.lastData = data]

\* bit b of a 16-bit word
Bit16(word, b) == (word \div (2 ^ b)) % 2 # 0

\* a letter mask read with the least significant bit as A
LetterSelectedLowFirst(data, i) ==
    IF i <= 15 THEN Bit16(data[2], i) ELSE Bit16(data[1], i - 16)

\* (data & (1 << (31 - (i - ord('A'))))) != 0, i the number of the letter and
\* data the u32 as <<high word, low word>>
LetterSelected(data, i) ==
    IF i <= 15 THEN Bit16(data[1], 15 - i) ELSE Bit16(data[2], 31 - i)

\* 0x001B: DEFtype with a 32-bit letter mask
H001B(c, v, data) ==
    LET c1 == read32(read16(c))
        c2 == IF get_builtin_type(v, data[2] % 64) = "Invalid"
              THEN Raise(c1, "Invalid built-in type") ELSE c1
        c3 == put_statement(c2, DefTypeDeclaration(get_builtin_type(v, data[2] % 64),
                                                   { i \in 0..25 : LetterSelected(data, i) }))
    IN  KeepData(c3, data)

\* flags & mask, for a mask of width bits starting at bit shift
Masked(flags, shift, width) == ((flags \div (2 ^ shift)) % (2 ^ width)) * (2 ^ shift)

\* the mode chain of 0x00C9/0x00CA; "Unbound" when no branch assigns mode
OpenMode(flags) ==
    IF Bit16(flags, 0) THEN "INPUT"
    ELSE IF Bit16(flags, 1) THEN "OUTPUT"
    ELSE IF Bit16(flags, 2) THEN "RANDOM"
    ELSE IF Bit16(flags, 3) THEN "APPEND"
    ELSE IF Bit16(flags, 5) THEN "BINARY"
    ELSE "Unbound"

\* the access chain
OpenAccess(flags) ==
    IF Masked(flags, 8, 2) = \h0100 THEN "READ"
    ELSE IF Masked(flags, 8, 2) = \h0200 THEN "WRITE"
    ELSE IF Masked(flags, 8, 2) = \h0300 THEN "READ WRITE"
    ELSE "None"

\* a lock chain that tests bit 0x4000 first
OpenLockSharedFirst(flags) ==
    IF Bit16(flags, 14) THEN "SHARED"
    ELSE IF Masked(flags, 12, 2) = \h1000 THEN "READ WRITE"
    ELSE IF Masked(flags, 12, 2) = \h2000 THEN "WRITE"
    ELSE IF Masked(flags, 12, 2) = \h3000 THEN "READ"
    ELSE "None"

\* the lock chain
OpenLock(flags) ==
    IF Masked(flags, 12, 2) = \h1000 THEN "READ WRITE"
    ELSE IF Masked(flags, 12, 2) = \h2000 THEN "WRITE"
    ELSE IF Masked(flags, 12, 2) = \h3000 THEN "READ"
    ELSE IF Bit16(flags, 14) THEN "SHARED"
    ELSE "None"

\* 0x00C9, 0x00CA: OPEN ... FOR ... AS, 0x00CA with a record length on top of
\* the stack; filename, filenumber = cxt.pop(2) raises ValueError when pop
\* returns fewer than two operands, and the use of mode raises
\* UnboundLocalError when no mode bit is set
H00C9(c, opcode, flags) ==
    LET c1 == read16(c)
        c2 == IF opcode = \h00CA THEN pop1(c1) ELSE [c1 EXCEPT !.ret = None]
        c3 == pop(c2, 2)
        c4 == IF c3.err = "" /\ Len(c3.ret) # 2 THEN Raise(c3, "ValueError") ELSE c3
        c5 == IF OpenMode(flags) = "Unbound" THEN Raise(c4, "UnboundLocalError") ELSE c4
    IN  IF c5.err # "" THEN c5
        ELSE KeepData(put_assignment_statement(c5,
                        OpenStatement(c3.ret[1], c3.ret[2], OpenMode(flags),
                                      OpenAccess(flags), OpenLock(flags), c2.ret)),
                      <<flags>>)

\* bytes * n
RECURSIVE Repeat(_, _)
Repeat(bytes, n) == IF n <= 0 THEN <<>> ELSE bytes \o Repeat(bytes, n - 1)

\* an expansion that copies every byte
expand_commentCopy(text) == text

\* the loop of BasicFileVersion.expand_comment from index i (0-based) on
RECURSIVE ExpandFrom(_, _, _)
ExpandFrom(text, i, result) ==
    IF ~(i < Len(text)) THEN result
    ELSE IF i + 2 < Len(text) /\ text[i + 1] = \h0D
    THEN ExpandFrom(text, i + 3, result \o Repeat(SubSeq(text, i + 3, i + 3), text[i + 2]))
    ELSE ExpandFrom(text, i + 1, result \o SubSeq(text, i + 1, i + 1))

\* BasicFileVersion.expand_comment
expand_comment(text) == ExpandFrom(text, 0, <<>>)

\* 0x0097: the comment of the current line: a u16 column, then run-length
\* encoded text
H0097(c, text) ==
    IF ~HasLine(c) THEN Raise(c, "IndexError")
    ELSE IF ~IsNone(CurLine(c).comment) THEN Raise(c, "AssertionError")
    ELSE LET c1 == reads(c, Len(text))
             got == SubSeq(text, 1, c1.ret)
         IN  IF c1.err # "" THEN c1
             ELSE IF Len(got) < 2 THEN Raise(c1, "IndexError")
             ELSE KeepData(SetCurLine(c1, [CurLine(c1) EXCEPT !.comment =
                               Comment(expand_comment(SubSeq(got, 3, Len(got))),
                                       got[1] + 256 * got[2])]),
                           SubSeq(got, 3, Len(got)))

\* 0x016B, 0x016C: a single (f32, suffix !) or double (f64, suffix #) literal
H016B(c, opcode, value) ==
    LET c1 == IF opcode = \h016B THEN ReadFixed(c, 4) ELSE ReadFixed(c, 8)
    IN  KeepData(push(c1, FloatLiteral(value, IF opcode = \h016B THEN "!" ELSE "#")),
                 <<value>>)

\* QBParseContext.peek_statement(VariableDeclarationStatement): ret is the current
\* statement, or None when it is of another class
peek_statement(c, class) ==
    IF c.err # "" THEN c
    ELSE IF ~HasLine(c) THEN Raise(c, "IndexError")
    ELSE [c EXCEPT !.ret = IF CurStatement(c).cls = class THEN CurStatement(c) ELSE None]

\* 0x000E: an array element with argcount subscripts (bit 15: no subscript list)
H000E(c, v, parameter, argcount, name_offset, entry) ==
    LET c1 == readvar(read16(c), name_offset, entry)
        c2 == IF parameter # 0 THEN set_suffix(c1, v, parameter) ELSE c1
        c3 == pop(c2, argcount)
    IN  IF argcount < \h8000
        THEN push(c3, ArrayElement(c2.ret, Dimensions(c3.ret)))
        ELSE push(c2, ArrayElement(c2.ret, None))

\* 0x000F: assignment to an array element
H000F(c, v, parameter, argcount, name_offset, entry) ==
    LET c1 == readvar(read16(c), name_offset, entry)
        c2 == IF parameter # 0 THEN set_suffix(c1, v, parameter) ELSE c1
        c3 == pop1(c2)
        c4 == pop(c3, argcount)
    IN  put_statement(c4, AssignmentStatement(ArrayElement(c2.ret, Dimensions(c4.ret)),
                                              c3.ret, "None"))

\* 0x0010: the name and bounds of an array declarator; in a QB40 file outside of
\* COMMON, SHARED and STATIC statements it is an array element like 0x000E
H0010(c, v, parameter, argcount, name_offset, entry) ==
    LET p == IF v = "QB40" THEN peek_statement(c, "VariableDeclarationStatement") ELSE c
    IN  IF p.err # "" THEN p
        ELSE IF v = "QB40" /\ (IsNone(p.ret) \/ p.ret.kind \in {"None", "DIM", "REDIM"})
        THEN H000E(c, v, parameter, argcount, name_offset, entry)
        ELSE LET c1 == readvar(read16(c), name_offset, entry)
                 c2 == IF parameter # 0 THEN set_suffix(c1, v, parameter) ELSE c1
                 c3 == pop(c2, argcount)
             IN  set_name(put_declaration(c3), c2.ret, Dimensions(c3.ret))

\* 0x0011: the field of a record
H0011(c, v, parameter, name_offset, entry) ==
    LET c1 == readvar(c, name_offset, entry)
        c2 == IF parameter # 0 THEN set_suffix(c1, v, parameter) ELSE c1
        c3 == pop1(c2)
    IN  push(c3, FieldSelection(c3.ret, c2.ret))

\* 0x0012: assignment to the field of a record
H0012(c, v, parameter, name_offset, entry) ==
    LET c1 == readvar(c, name_offset, entry)
        c2 == IF parameter # 0 THEN set_suffix(c1, v, parameter) ELSE c1
        c3 == pop1(c2)
        c4 == pop1(c3)
    IN  put_statement(c4, AssignmentStatement(FieldSelection(c3.ret, c2.ret), c4.ret, "None"))

\* 0x0179: XOR of the two topmost operands; BinaryOperator("XOR", *args) raises
\* TypeError when pop(2) returned fewer than two
H0179(c) ==
    LET c1 == pop(c, 2)
    IN  IF c1.err # "" THEN c1
        ELSE IF Len(c1.ret) < 2 THEN Raise(c1, "TypeError")
        ELSE push(c1, BinaryOperator("XOR", c1.ret[1], c1.ret[2]))

\* the lookup of .add_item on the statement put_statement_kind returned: only a
\* PrintStatement has the method
add_item_lookup(c) ==
    IF c.err # "" THEN c
    ELSE IF c.ret.cls # "PrintStatement" THEN Raise(c, "AttributeError")
    ELSE c

\* PrintStatement.add_item on statements[-1]
add_item(c, item) ==
    IF c.err # "" THEN c
    ELSE SetCurStatement(c, [CurStatement(c) EXCEPT !.items = Append(@, item)])

\* 0x008F..0x0096: the items of a PRINT statement; the statement is fetched and
\* its add_item looked up before the operand is popped
H008F(c, opcode) ==
    LET c1 == put_statement_kind(c, "PrintStatement", NewPrintStatement("PRINT"))
        c2 == add_item_lookup(c1)
        c3 == pop1(c2)
    IN  CASE opcode = \h008F -> add_item(c3, PrintControl("SPC", c3.ret))
          [] opcode = \h0090 -> add_item(c3, PrintControl("TAB", c3.ret))
          [] opcode = \h0091 -> add_item(c2, PrintItem(None, ","))
          [] opcode = \h0092 -> add_item(c2, PrintItem(None, ";"))
          [] opcode = \h0093 -> c1
          [] opcode = \h0094 -> add_item(c3, PrintItem(c3.ret, ","))
          [] opcode = \h0095 -> add_item(c3, PrintItem(c3.ret, ";"))
          [] opcode = \h0096 -> add_item(c3, c3.ret)

\* 0x007E, 0x007F, 0x0080: the positional arguments aspect, end and start
H007E(c, opcode) ==
    LET c1 == pop1(c)
    IN  set_argument(c1, CASE opcode = \h007E -> "aspect" [] opcode = \h007F -> "end"
                           [] opcode = \h0080 -> "start", c1.ret)

\* 0x0081..0x0084: the coordinate pairs from and to; CoordinatePair(*args) raises
\* TypeError when pop(2) returned fewer than two operands
H0081(c, opcode) ==
    LET c1 == pop(c, 2)
    IN  IF c1.err # "" THEN c1
        ELSE IF Len(c1.ret) < 2 THEN Raise(c1, "TypeError")
        ELSE set_argument(c1, IF opcode \in {\h0081, \h0082} THEN "from" ELSE "to",
                          CoordinatePair(c1.ret[1], c1.ret[2], opcode \in {\h0082, \h0084}))

\* 0x009F, 0x00A0: CIRCLE; the constructor asserts that center is a CoordinatePair
H009F(c, opcode) ==
    LET center == get_argument(c, "from")
        c1 == IF opcode = \h00A0 THEN pop1(c) ELSE c
        color == IF opcode = \h00A0 THEN c1.ret ELSE None
        c2 == pop1(c1)
    IN  IF c2.err # "" THEN c2
        ELSE IF center.cls # "CoordinatePair" THEN Raise(c2, "AssertionError")
        ELSE put_statement(c2, CircleStatement(center, c2.ret, color,
                 get_argument(c2, "start"), get_argument(c2, "end"), get_argument(c2, "aspect")))

\* BasicFileVersion.BUILTINS: <<opcode, isfun, name, argcount, flags, missing_arguments,
\* skipped_words>>; the flag "counted" stands for an argcount of None (the count is
\* the next u16 of the stream), and argcount is then 0
BuiltinTable ==
    { <<\h0043, FALSE, "CHAIN", 1, {}, {}, 0>>, <<\h004E, FALSE, "END", 0, {}, {}, 0>>,
      <<\h0075, FALSE, "STOP", 0, {}, {}, 1>>, <<\h0077, FALSE, "WAIT", 2, {}, {}, 0>>,
      <<\h0078, FALSE, "WAIT", 3, {}, {}, 0>>, <<\h0079, FALSE, "WEND", 0, {}, {}, 1>>,
      <<\h007A, FALSE, "WHILE", 1, {}, {}, 1>>, <<\h009A, FALSE, "BEEP", 0, {}, {}, 0>>,
      <<\h009B, FALSE, "BLOAD", 1, {}, {}, 0>>, <<\h009C, FALSE, "BLOAD", 2, {}, {}, 0>>,
      <<\h009D, FALSE, "BSAVE", 3, {}, {}, 0>>, <<\h009E, FALSE, "CHDIR", 1, {}, {}, 0>>,
      <<\h00A1, FALSE, "CLEAR", 0, {"counted", "double_arguments"}, {}, 0>>,
      <<\h00A2, FALSE, "CLOSE", 0, {"counted"}, {}, 0>>,
      <<\h00A3, FALSE, "CLS", 1, {"double_arguments"}, {}, 0>>,
      <<\h00A4, FALSE, "COLOR", 0, {"counted", "double_arguments"}, {}, 0>>,
      <<\h00A7, FALSE, "DATE$", -1, {"assignment"}, {}, 0>>,
      <<\h00A8, FALSE, "DEF SEG", 0, {}, {}, 0>>,
      <<\h00A9, FALSE, "DEF SEG", -1, {"assignment"}, {}, 0>>, <<\h00AA, FALSE, "DRAW", 1, {}, {}, 0>>,
      <<\h00AB, FALSE, "ENVIRON", 1, {}, {}, 0>>, <<\h00AD, FALSE, "ERROR", 1, {}, {}, 0>>,
      <<\h00AE, FALSE, "FILES", 0, {}, {}, 0>>, <<\h00AF, FALSE, "FILES", 1, {}, {}, 0>>,
      <<\h00B0, FALSE, "GET", 1, {}, {}, 0>>, <<\h00B1, FALSE, "GET", 2, {}, {}, 0>>,
      <<\h00B2, FALSE, "GET", 2, {}, {1}, 1>>, <<\h00B3, FALSE, "GET", 3, {}, {}, 1>>,
      <<\h00B7, FALSE, "IOCTL", 2, {}, {}, 0>>, <<\h00B9, FALSE, "KEY", 2, {}, {}, 0>>,
      <<\h00BA, FALSE, "KILL", 1, {}, {}, 0>>,
      <<\h00C1, FALSE, "LOCATE", 0, {"counted", "double_arguments"}, {}, 0>>,
      <<\h00C5, FALSE, "MID$", 2, {"assignment"}, {}, 0>>,
      <<\h00C6, FALSE, "MID$", 3, {"assignment"}, {}, 0>>, <<\h00C7, FALSE, "MKDIR", 1, {}, {}, 0>>,
      <<\h00CB, FALSE, "OPEN", 3, {}, {}, 0>>, <<\h00CC, FALSE, "OPEN", 4, {}, {}, 0>>,
      <<\h00CD, FALSE, "OPTION BASE 0", 0, {}, {}, 0>>,
      <<\h00CE, FALSE, "OPTION BASE 1", 0, {}, {}, 0>>, <<\h00CF, FALSE, "OUT", 2, {}, {}, 0>>,
      <<\h00D2, FALSE, "PALETTE", 0, {}, {}, 0>>, <<\h00D3, FALSE, "PALETTE", 2, {}, {}, 0>>,
      <<\h00D4, FALSE, "PALETTE USING", 1, {}, {}, 0>>, <<\h00D5, FALSE, "PCOPY", 2, {}, {}, 0>>,
      <<\h00D6, FALSE, "PLAY", 1, {}, {}, 0>>, <<\h00D7, FALSE, "POKE", 2, {}, {}, 0>>,
      <<\h00DC, FALSE, "PUT", 1, {}, {}, 0>>, <<\h00DD, FALSE, "PUT", 2, {}, {}, 0>>,
      <<\h00DE, FALSE, "PUT", 2, {}, {1}, 1>>, <<\h00DF, FALSE, "PUT", 3, {}, {}, 1>>,
      <<\h00E0, FALSE, "RANDOMIZE", 0, {}, {}, 0>>, <<\h00E1, FALSE, "RANDOMIZE", 1, {}, {}, 0>>,
      <<\h00E4, FALSE, "RESET", 0, {}, {}, 0>>, <<\h00E5, FALSE, "RMDIR", 1, {}, {}, 0>>,
      <<\h00E7, FALSE, "SCREEN", 0, {"counted", "double_arguments"}, {}, 0>>,
      <<\h00E8, FALSE, "SEEK", 2, {}, {}, 0>>, <<\h00E9, FALSE, "SHELL", 0, {}, {}, 0>>,
      <<\h00EA, FALSE, "SHELL", 1, {}, {}, 0>>, <<\h00EB, FALSE, "SLEEP", 0, {}, {}, 0>>,
      <<\h00EC, FALSE, "SOUND", 2, {}, {}, 0>>, <<\h00ED, FALSE, "SWAP", 2, {}, {}, 1>>,
      <<\h00EE, FALSE, "SYSTEM", 0, {}, {}, 0>>, <<\h00EF, FALSE, "TIME$", -1, {"assignment"}, {}, 0>>,
      <<\h00F0, FALSE, "TROFF", 0, {}, {}, 0>>, <<\h00F1, FALSE, "TRON", 0, {}, {}, 0>>,
      <<\h00F4, FALSE, "VIEW", 0, {}, {}, 0>>, <<\h00F9, FALSE, "WIDTH LPRINT", 1, {}, {}, 0>>,
      <<\h00FA, FALSE, "WIDTH", 2, {}, {}, 0>>, <<\h00FC, FALSE, "WINDOW", 0, {}, {}, 0>>,
      <<\h0105, TRUE, "ABS", 1, {}, {}, 0>>, <<\h0106, TRUE, "ASC", 1, {}, {}, 0>>,
      <<\h0107, TRUE, "ATN", 1, {}, {}, 0>>, <<\h0109, TRUE, "CHR$", 1, {}, {}, 0>>,
      <<\h010A, TRUE, "COMMAND$", -1, {}, {}, 0>>, <<\h010B, TRUE, "COS", 1, {}, {}, 0>>,
      <<\h010C, TRUE, "CSRLIN", -1, {}, {}, 0>>, <<\h010D, TRUE, "CVD", 1, {}, {}, 0>>,
      <<\h010E, TRUE, "CVDMBF", 1, {}, {}, 0>>, <<\h010F, TRUE, "CVI", 1, {}, {}, 0>>,
      <<\h0110, TRUE, "CVL", 1, {}, {}, 0>>, <<\h0111, TRUE, "CVS", 1, {}, {}, 0>>,
      <<\h0112, TRUE, "CVSMBF", 1, {}, {}, 0>>, <<\h0113, TRUE, "DATE$", -1, {}, {}, 0>>,
      <<\h0114, TRUE, "ENVIRON$", 1, {}, {}, 0>>, <<\h0115, TRUE, "EOF", 1, {}, {}, 0>>,
      <<\h0116, TRUE, "ERDEV", -1, {}, {}, 0>>, <<\h0117, TRUE, "ERDEV$", -1, {}, {}, 0>>,
      <<\h0118, TRUE, "ERL", -1, {}, {}, 0>>, <<\h0119, TRUE, "ERR", -1, {}, {}, 0>>,
      <<\h011A, TRUE, "EXP", 1, {}, {}, 0>>, <<\h011B, TRUE, "FILEATTR", 2, {}, {}, 0>>,
      <<\h011C, TRUE, "FIX", 1, {}, {}, 0>>, <<\h011D, TRUE, "FRE", 1, {}, {}, 0>>,
      <<\h011E, TRUE, "FREEFILE", -1, {}, {}, 0>>, <<\h011F, TRUE, "HEX$", 1, {}, {}, 0>>,
      <<\h0120, TRUE, "INKEY$", -1, {}, {}, 0>>, <<\h0121, TRUE, "INP", 1, {}, {}, 0>>,
      <<\h0122, TRUE, "INPUT$", 1, {}, {}, 0>>, <<\h0123, TRUE, "INPUT$", 2, {}, {}, 0>>,
      <<\h0124, TRUE, "INSTR", 2, {}, {}, 0>>, <<\h0125, TRUE, "INSTR", 3, {}, {}, 0>>,
      <<\h0126, TRUE, "INT", 1, {}, {}, 0>>, <<\h0127, TRUE, "IOCTL$", 1, {}, {}, 0>>,
      <<\h0128, TRUE, "LBOUND", 1, {}, {}, 0>>, <<\h0129, TRUE, "LBOUND", 2, {}, {}, 0>>,
      <<\h012A, TRUE, "LCASE$", 1, {}, {}, 0>>, <<\h012B, TRUE, "LTRIM$", 1, {}, {}, 0>>,
      <<\h012C, TRUE, "LEFT$", 2, {}, {}, 0>>, <<\h012D, TRUE, "LEN", 1, {}, {}, 1>>,
      <<\h012E, TRUE, "LOC", 1, {}, {}, 0>>, <<\h012F, TRUE, "LOF", 1, {}, {}, 0>>,
      <<\h0130, TRUE, "LOG", 1, {}, {}, 0>>, <<\h0131, TRUE, "LPOS", 1, {}, {}, 0>>,
      <<\h0132, TRUE, "MID$", 2, {}, {}, 0>>, <<\h0133, TRUE, "MID$", 3, {}, {}, 0>>,
      <<\h0134, TRUE, "MKD$", 1, {}, {}, 0>>, <<\h0135, TRUE, "MKDMBF$", 1, {}, {}, 0>>,
      <<\h0136, TRUE, "MKI$", 1, {}, {}, 0>>, <<\h0137, TRUE, "MKL$", 1, {}, {}, 0>>,
      <<\h0138, TRUE, "MKS$", 1, {}, {}, 0>>, <<\h0139, TRUE, "MKSMBF$", 1, {}, {}, 0>>,
      <<\h013A, TRUE, "OCT$", 1, {}, {}, 0>>, <<\h013B, TRUE, "PEEK", 1, {}, {}, 0>>,
      <<\h013C, TRUE, "PEN", 1, {}, {}, 0>>, <<\h013D, TRUE, "PLAY", 1, {}, {}, 0>>,
      <<\h013E, TRUE, "PMAP", 2, {}, {}, 0>>, <<\h013F, TRUE, "POINT", 1, {}, {}, 0>>,
      <<\h0140, TRUE, "POINT", 2, {}, {}, 0>>, <<\h0141, TRUE, "POS", 1, {}, {}, 0>>,
      <<\h0142, TRUE, "RIGHT$", 2, {}, {}, 0>>, <<\h0143, TRUE, "RND", -1, {}, {}, 0>>,
      <<\h0144, TRUE, "RND", 1, {}, {}, 0>>, <<\h0145, TRUE, "RTRIM$", 1, {}, {}, 0>>,
      <<\h0146, TRUE, "SADD", 1, {}, {}, 0>>, <<\h0147, TRUE, "SCREEN", 2, {}, {}, 0>>,
      <<\h0148, TRUE, "SCREEN", 3, {}, {}, 0>>, <<\h0149, TRUE, "SEEK", 1, {}, {}, 0>>,
      <<\h014A, TRUE, "SETMEM", 1, {}, {}, 0>>, <<\h014B, TRUE, "SGN", 1, {}, {}, 0>>,
      <<\h014C, TRUE, "SHELL", 1, {}, {}, 0>>, <<\h014D, TRUE, "SIN", 1, {}, {}, 0>>,
      <<\h014E, TRUE, "SPACE$", 1, {}, {}, 0>>, <<\h014F, TRUE, "SQR", 1, {}, {}, 0>>,
      <<\h0150, TRUE, "STICK", 1, {}, {}, 0>>, <<\h0151, TRUE, "STR$", 1, {}, {}, 0>>,
      <<\h0152, TRUE, "STRIG", 1, {}, {}, 0>>, <<\h0153, TRUE, "STRING$", 2, {}, {}, 0>>,
      <<\h0154, TRUE, "TAN", 1, {}, {}, 0>>, <<\h0155, TRUE, "TIME$", -1, {}, {}, 0>>,
      <<\h0156, TRUE, "TIMER", -1, {}, {}, 0>>, <<\h0157, TRUE, "UBOUND", 1, {}, {}, 0>>,
      <<\h0158, TRUE, "UBOUND", 2, {}, {}, 0>>, <<\h0159, TRUE, "UCASE$", 1, {}, {}, 0>>,
      <<\h015A, TRUE, "VAL", 1, {}, {}, 0>>, <<\h015B, TRUE, "VARPTR", 1, {}, {}, 0>>,
      <<\h015C, TRUE, "VARPTR$", 1, {}, {}, 1>>, <<\h015D, TRUE, "VARSEG", 1, {}, {}, 0>>,
      <<\h017B, FALSE, "SLEEP", 1, {}, {}, 0>>, <<\h017F, FALSE, "CHDRIVE", 1, {}, {}, 0>>,
      <<\h0180, FALSE, "ERR", -1, {"assignment"}, {}, 0>>, <<\h0181, TRUE, "CURDIR$", -1, {}, {}, 0>>,
      <<\h0182, TRUE, "CURDIR$", 1, {}, {}, 0>>, <<\h0183, TRUE, "DIR$", -1, {}, {}, 0>>,
      <<\h0184, TRUE, "DIR$", 1, {}, {}, 0>>, <<\h0186, TRUE, "BOF", 1, {}, {}, 0>>,
      <<\h0187, TRUE, "CVC", 1, {}, {}, 0>>, <<\h0188, TRUE, "GETINDEX$", 1, {}, {}, 0>>,
      <<\h0189, TRUE, "MKC$", 1, {}, {}, 0>>, <<\h018A, TRUE, "SAVEPOINT", -1, {}, {}, 0>>,
      <<\h018B, TRUE, "SSEG", 1, {}, {}, 0>>, <<\h018C, TRUE, "SSEGADD", 1, {}, {}, 0>>,
      <<\h018D, TRUE, "STACK", -1, {}, {}, 0>>, <<\h018E, FALSE, "BEGINTRANS", 0, {}, {}, 0>>,
      <<\h018F, FALSE, "CHECKPOINT", 0, {}, {}, 0>>, <<\h0190, FALSE, "COMMITTRANS", 0, {}, {}, 0>>,
      <<\h0191, FALSE, "CREATEINDEX", 0, {"counted"}, {}, 0>>,
      <<\h0192, FALSE, "DELETE", 1, {}, {}, 0>>, <<\h0193, FALSE, "DELETEINDEX", 2, {}, {}, 0>>,
      <<\h0194, FALSE, "DELETETABLE", 2, {}, {}, 0>>, <<\h0195, FALSE, "END", 1, {}, {}, 0>>,
      <<\h0197, FALSE, "INSERT", 2, {}, {}, 0>>, <<\h019B, FALSE, "RETRIEVE", 2, {}, {}, 0>>,
      <<\h019C, FALSE, "ROLLBACK", 0, {}, {}, 0>>, <<\h019D, FALSE, "ROLLBACK", 1, {}, {}, 0>>,
      <<\h019E, FALSE, "ROLLBACK ALL", 0, {}, {}, 0>>, <<\h01A0, FALSE, "SETINDEX", 1, {}, {}, 0>>,
      <<\h01A1, FALSE, "SETINDEX", 2, {}, {}, 0>>, <<\h01A2, FALSE, "STACK", 0, {}, {}, 0>>,
      <<\h01A3, FALSE, "STACK", 1, {}, {}, 0>>, <<\h01A4, FALSE, "STOP", 1, {}, {}, 1>>,
      <<\h01A5, FALSE, "SYSTEM", 1, {}, {}, 0>>, <<\h01A6, FALSE, "UPDATE", 2, {}, {}, 0>>,
      <<\h01A7, TRUE, "TEXTCOMP", 2, {}, {}, 0>>, <<\h01AB, FALSE, "LOAD", 1, {}, {}, 0>>,
      <<\h01AC, FALSE, "UNLOAD", 1, {}, {}, 0>>, <<\h01AD, TRUE, "DOEVENTS", 0, {}, {}, 0>>,
      <<\h01AE, TRUE, "QBCOLOR", 1, {}, {}, 0>>, <<\h01AF, TRUE, "RGB", 3, {}, {}, 0>>,
      <<\h01B0, TRUE, "ERROR$", -1, {}, {}, 0>>, <<\h01B1, TRUE, "ERROR$", 1, {}, {}, 0>>,
      <<\h01B2, TRUE, "FORMAT$", 1, {}, {}, 0>>, <<\h01B3, TRUE, "FORMAT$", 2, {}, {}, 0>>,
      <<\h01B4, TRUE, "DATESERIAL", 3, {}, {}, 0>>, <<\h01B5, TRUE, "DATEVALUE", 1, {}, {}, 0>>,
      <<\h01B6, TRUE, "DAY", 1, {}, {}, 0>>, <<\h01B7, TRUE, "MONTH", 1, {}, {}, 0>>,
      <<\h01B8, TRUE, "WEEKDAY", 1, {}, {}, 0>>, <<\h01B9, TRUE, "YEAR", 1, {}, {}, 0>>,
      <<\h01BA, TRUE, "NOW", -1, {}, {}, 0>>, <<\h01BB, TRUE, "TIMESERIAL", 3, {}, {}, 0>>,
      <<\h01BC, TRUE, "TIMEVALUE", 1, {}, {}, 0>>, <<\h01BD, TRUE, "HOUR", 1, {}, {}, 0>>,
      <<\h01BE, TRUE, "MINUTE", 1, {}, {}, 0>>, <<\h01BF, TRUE, "SECOND", 1, {}, {}, 0>>,
      <<\h01C0, FALSE, "OPTION EXPLICIT", 0, {}, {}, 0>>, <<\h01C3, TRUE, "INPUTBOX$", 3, {}, {}, 0>>,
      <<\h01C4, TRUE, "INPUTBOX$", 5, {}, {}, 0>>, <<\h01C5, FALSE, "MSGBOX", 3, {}, {}, 0>>,
      <<\h01C6, TRUE, "MSGBOX", 3, {}, {}, 0>> }

Entry(opcode) == CHOOSE e \in BuiltinTable : e[1] = opcode

\* clear_missing: the arguments without the Missing markers
clear_missing(args) == SelectSeq(args, LAMBDA a : a # Missing)

\* args.insert(skip, None) for the skips in ascending order
RECURSIVE InsertMissing(_, _)
InsertMissing(args, skips) ==
    IF skips = {} THEN args
    ELSE LET skip == CHOOSE s \in skips : \A t \in skips : s <= t
             at == Min(skip, Len(args))
         IN  InsertMissing(SubSeq(args, 1, at) \o <<None>> \o SubSeq(args, at + 1, Len(args)),
                           skips \ {skip})

\* the operand count without the max(0, argcount) of the fixed counts
PopArgCountNoMax(e, count) ==
    (IF "counted" \in e[5] THEN count ELSE e[4])
      + (IF "assignment" \in e[5] THEN 1 ELSE 0)

\* popargcount: the u16 read for a count of None, else max(0, argcount); one more
\* with the assignment flag
PopArgCount(e, count) ==
    (IF "counted" \in e[5] THEN count ELSE IF e[4] < 0 THEN 0 ELSE e[4])
      + (IF "assignment" \in e[5] THEN 1 ELSE 0)

\* read16 repeated n times
RECURSIVE Skip16(_, _)
Skip16(c, n) == IF n <= 0 THEN c ELSE Skip16(read16(c), n - 1)

\* the topmost operand taken as the assigned value, the others as the arguments
AssignedValueTop(args) == <<SubSeq(args, 1, Len(args) - 1), args[Len(args)]>>

\* the assignment form: args.insert(0, args.pop()) moves the topmost operand to
\* the front when there are several, then value = args.pop(); <<arguments, value>>
AssignedValue(args) ==
    LET rotated == IF Len(args) > 1 THEN <<Last(args)>> \o Front(args) ELSE args
    IN  <<Front(rotated), Last(rotated)>>

\* the builtin dispatch of BasicFileVersion.parse_opcode for an opcode of the table;
\* count is the u16 read for a count of None
HBuiltin(c, opcode, count) ==
    LET e == Entry(opcode)
        c1 == IF "counted" \in e[5] THEN KeepData(read16(c), <<count>>) ELSE c
        c2 == pop(c1, PopArgCount(e, count))
        args1 == IF "double_arguments" \in e[5] THEN clear_missing(c2.ret) ELSE c2.ret
        args == InsertMissing(args1, e[6])
        implicit == e[4] = -1
        c3 == IF c2.err # "" THEN c2
              ELSE IF e[2]
              THEN IF implicit /\ Len(args) # 0 THEN Raise(c2, "AssertionError")
                   ELSE push(c2, BuiltinFunctionCall(e[3],
                                    IF implicit THEN None ELSE Dimensions(args)))
              ELSE IF "assignment" \in e[5]
              THEN IF Len(args) = 0 THEN Raise(c2, "UnboundLocalError")
                   ELSE IF implicit /\ Len(AssignedValue(args)[1]) # 0
                   THEN Raise(c2, "AssertionError")
                   ELSE put_assignment_statement(c2,
                          AssignmentStatement(
                             BuiltinFunctionCall(e[3],
                                IF implicit THEN None ELSE Dimensions(AssignedValue(args)[1])),
                             AssignedValue(args)[2], "None"))
              ELSE put_statement(c2, BuiltinStatement(e[3], Dimensions(args)))
    IN  Skip16(c3, e[7])

\* the operator of a binary-operator opcode
BinaryOperatorOf(opcode) ==
    CASE opcode = \h0100 -> "+" [] opcode = \h0101 -> "AND" [] opcode = \h0102 -> "/"
      [] opcode = \h0103 -> "=" [] opcode = \h0104 -> "EQV" [] opcode = \h015E -> ">="
      [] opcode = \h015F -> ">" [] opcode = \h0160 -> "\\" [] opcode = \h0161 -> "IMP"
      [] opcode = \h0162 -> "<=" [] opcode = \h0163 -> "<" [] opcode = \h016F -> "MOD"
      [] opcode = \h0170 -> "*" [] opcode = \h0171 -> "<>" [] opcode = \h0175 -> "OR"
      [] opcode = \h0176 -> "^" [] opcode = \h0177 -> "-" [] opcode = \h0179 -> "XOR"

BinaryOpcodes ==
    (\h0100..\h0104) \cup (\h015E..\h0163) \cup (\h016F..\h0171) \cup (\h0175..\h0177)
      \cup {\h0179}

\* a binary operator: BinaryOperator(op, *args) raises TypeError when pop(2)
\* returned fewer than two operands
H0100(c, opcode) ==
    LET c1 == pop(c, 2)
    IN  IF c1.err # "" THEN c1
        ELSE IF Len(c1.ret) < 2 THEN Raise(c1, "TypeError")
        ELSE push(c1, BinaryOperator(BinaryOperatorOf(opcode), c1.ret[1], c1.ret[2]))

\* 0x0174 NOT, 0x0178 unary minus, 0x016E parentheses, 0x0025 BYVAL, 0x0036 SEG
H0174(c, opcode) ==
    LET c1 == pop1(c)
    IN  push(c1, CASE opcode = \h0174 -> UnaryOperator("NOT", c1.ret)
                   [] opcode = \h0178 -> UnaryOperator("-", c1.ret)
                   [] opcode = \h016E -> Parentheses(c1.ret)
                   [] opcode = \h0025 -> ByValue(c1.ret)
                   [] opcode = \h0036 -> AsSegmented(c1.ret))

\* 0x0172, 0x0173: the null operand and the marker of a missing argument
H0172(c, opcode) == push(c, IF opcode = \h0172 THEN None ELSE Missing)

\* a set_kind that overwrites the kind
set_kindOverwriting(c, kind) ==
    IF c.err # "" THEN c
    ELSE IF c.ret.cls # "VariableDeclarationStatement" THEN Raise(c, "AttributeError")
    ELSE SetCurStatement(c, [CurStatement(c) EXCEPT !.kind = kind])

\* VariableDeclarationStatement.set_kind on the statement put_statement_kind
\* returned (statements[-1]); another class has no such method
set_kind(c, kind) ==
    IF c.err # "" THEN c
    ELSE IF c.ret.cls # "VariableDeclarationStatement" THEN Raise(c, "AttributeError")
    ELSE IF c.ret.kind \notin {"None", kind} THEN Raise(c, "AssertionError")
    ELSE SetCurStatement(c, [CurStatement(c) EXCEPT !.kind = kind])

\* the store to .mode of the statement put_statement_kind returned; on a
\* statement of another class the attribute is new and never read
store_mode(c, mode) ==
    IF c.err # "" THEN c
    ELSE IF c.ret.cls # "VariableDeclarationStatement" THEN c
    ELSE SetCurStatement(c, [CurStatement(c) EXCEPT !.mode = mode])

put_declaration_statement(c) ==
    put_statement_kind(c, "VariableDeclarationStatement", VariableDeclarationStatement)

\* 0x001A: SHARED as the mode of the declaration statement
H001A(c) == store_mode(put_declaration_statement(c), "SHARED")

\* 0x001C, 0x01A8: REDIM [PRESERVE] of the array element on the stack
H001C(c, opcode) ==
    LET c1 == pop1(c)
        c2 == IF c1.err # "" THEN c1
              ELSE IF c1.ret.cls # "ArrayElement" THEN Raise(c1, "AttributeError")
              ELSE set_name(put_declaration(c1), c1.ret.name, c1.ret.args)
        c3 == set_kind(put_declaration_statement(c2), "REDIM")
    IN  IF opcode = \h01A8 THEN store_mode(put_declaration_statement(c3), "PRESERVE") ELSE c3

\* 0x001E, 0x001F: the kinds SHARED and STATIC
H001E(c, opcode) ==
    set_kind(put_declaration_statement(read16(c)),
             IF opcode = \h001E THEN "SHARED" ELSE "STATIC")

\* 0x00A5: COMMON with the name of its block (offset 0xFFFF: none)
H00A5(c, name_offset, entry) ==
    LET c1 == ReadOffset(read16(c), name_offset)
        c2 == IF name_offset # \hFFFF THEN qb_readvar(c1, name_offset, entry)
              ELSE [c1 EXCEPT !.ret = None]
        c3 == set_kind(put_declaration_statement(c2), "COMMON")
        c4 == put_declaration_statement(c3)
    IN  IF c4.err # "" \/ c4.ret.cls # "VariableDeclarationStatement" THEN c4
        ELSE SetCurStatement(c4, [CurStatement(c4) EXCEPT !.common_block_name = c2.ret])

\* 0x017D: the kind DIM
H017D(c) == read16(set_kind(put_declaration_statement(c), "DIM"))

\* FixedStringType(size), by its name
FixedStringType(size) == "STRING * " \o ToString(size)

\* get_type: ANY, a builtin type, a fixed-length string, or the user type named at
\* the offset (ret is the type; of a CustomType the class only)
get_type(c, v, index, entry) ==
    IF c.err # "" THEN c
    ELSE IF index = 0 THEN [c EXCEPT !.ret = "ANY"]
    ELSE IF index <= get_maximum_builtin_type(v)
    THEN [c EXCEPT !.ret = get_builtin_type(v, index)]
    ELSE IF index >= \h8000 THEN [c EXCEPT !.ret = FixedStringType(index - \h8000)]
    ELSE LET c1 == qb_readvar(c, index, entry)
         IN  IF c1.err # "" THEN c1 ELSE [c1 EXCEPT !.ret = "CustomType"]

\* 0x0015: the type of a declarator by its index or offset; the callee
\* put_declaration() runs before the argument get_type(...) is evaluated
H0015(c, v, type_offset, column, entry) ==
    LET c1 == read16(read16(c))
        c2 == put_declaration(c1)
        c3 == get_type(c2, v, type_offset, entry)
    IN  IF c3.err # "" THEN c3 ELSE set_type(c3, c3.ret, column)

\* 0x017C: STRING * size as the type of a declarator
H017C(c, size, column) ==
    LET c1 == read16(read16(read16(c)))
    IN  set_type(put_declaration(c1), FixedStringType(size), column)

\* 0x0014: assignment to an array element of a field
H0014(c, v, parameter, argcount, name_offset, entry) ==
    LET c1 == readvar(read16(c), name_offset, entry)
        c2 == IF parameter # 0 THEN set_suffix(c1, v, parameter) ELSE c1
        c3 == pop1(c2)
        c4 == pop(c3, argcount)
        c5 == pop1(c4)
    IN  put_statement(c5, AssignmentStatement(
            FieldSelection(c3.ret, ArrayElement(c2.ret, Dimensions(c4.ret))), c5.ret, "None"))

\* 0x0004: begin a line with a label
H0004(c, name_offset, entry) ==
    LET c1 == readvar(read16(clear(c)), name_offset, entry)
    IN  begin_line(c1, c1.ret, 0)

\* 0x0005: begin a line with a label and an indent
H0005(c, name_offset, entry, indent) ==
    LET c1 == readvar(read16(clear(c)), name_offset, entry)
        c2 == read16(c1)
    IN  KeepData(begin_line(c2, c1.ret, indent), <<indent>>)

Op0000 ==
    /\ Enter
    /\ \E w \in Words :
          /\ Dispatch(version, w).op = \h0000
          /\ Commit(w, H0000(Cxt(Plenty, Plenty), Dispatch(version, w).parameter))

Op0006 ==
    /\ Enter
    /\ \E w \in Words :
          /\ Dispatch(version, w).op = \h0006
          /\ Commit(w, H0006(Cxt(Plenty, Plenty)))

Op000B ==
    /\ Enter
    /\ \E w \in Words :
          /\ Dispatch(version, w).op = \h000B
          /\ \E avail \in {Plenty, 1}, tavail \in TableAvails, name_offset \in NameOffsets, entry \in NameEntries :
                Commit(w, H000B(Cxt(avail, tavail), version, Dispatch(version, w).parameter, name_offset, entry))

Op000C ==
    /\ Enter
    /\ \E w \in Words :
          /\ Dispatch(version, w).op = \h000C
          /\ \E avail \in Avails, tavail \in TableAvails, name_offset \in Offsets, entry \in TextEntries :
                Commit(w, H000C(Cxt(avail, tavail), version, Dispatch(version, w).parameter, name_offset, entry))

Op000D ==
    /\ Enter
    /\ \E w \in Words :
          /\ Dispatch(version, w).op = \h000D
          /\ \E avail \in Avails, tavail \in TableAvails, name_offset \in Offsets, entry \in TextEntries :
                Commit(w, H000D(Cxt(avail, tavail), version, Dispatch(version, w).parameter, name_offset, entry))

Op0016 ==
    /\ Enter
    /\ \E w \in Words :
          /\ Dispatch(version, w).op = \h0016
          /\ \E avail \in Avails, typeidx \in {0, 1} :
                Commit(w, H0016(Cxt(avail, Plenty), version, typeidx, 0))

Op0026 ==
    /\ Enter
    /\ \E w \in Words :
          /\ Dispatch(version, w).op = \h0026
          /\ \E avail \in Avails :
                Commit(w, H0026(Cxt(avail, Plenty)))

Op0037 ==
    /\ Enter
    /\ \E w \in Words :
          /\ Dispatch(version, w).op = \h0037
          /\ \E avail \in Avails, argcount \in 0..2, name_offset \in Offsets, entry \in TextEntries :
                Commit(w, H0037(Cxt(avail, Plenty), argcount, name_offset, entry))

Op0045 ==
    /\ Enter
    /\ \E w \in Words :
          /\ Dispatch(version, w).op = \h0045
          /\ \E avail \in Avails, name_offset \in Offsets, entry \in TextEntries :
                Commit(w, H0045(Cxt(avail, Plenty), nops + 1, name_offset, entry))

Op0049 ==
    /\ Enter
    /\ \E w \in Words :
          /\ Dispatch(version, w).op = \h0049
          /\ \E avail \in Avails :
                Commit(w, H0049(Cxt(avail, Plenty)))

Op004C ==
    /\ Enter
    /\ \E w \in Words :
          /\ Dispatch(version, w).op = \h004C
          /\ \E avail \in Avails, name_offset \in Offsets, entry \in NameEntries :
                Commit(w, H004C(Cxt(avail, Plenty), name_offset, entry))

Op004F ==
    /\ Enter
    /\ \E w \in Words :
          /\ Dispatch(version, w).op = \h004F
          /\ \E avail \in Avails :
                Commit(w, H004F(Cxt(avail, Plenty)))

Op0055 ==
    /\ Enter
    /\ \E w \in Words :
          /\ Dispatch(version, w).op = \h0055
          /\ \E avail \in Avails :
                Commit(w, H0055(Cxt(avail, Plenty)))

Op005B ==
    /\ Enter
    /\ \E w \in Words :
          /\ Dispatch(version, w).op = \h005B
          /\ \E avail \in Avails, name_offset \in Offsets, entry \in NameEntries :
                Commit(w, H005B(Cxt(avail, Plenty), name_offset, entry))

Op005D ==
    /\ Enter
    /\ \E w \in Words :
          /\ Dispatch(version, w).op = \h005D
          /\ \E avail \in Avails :
                Commit(w, H005D(Cxt(avail, Plenty)))

Op005E ==
    /\ Enter
    /\ \E w \in Words :
          /\ Dispatch(version, w).op = \h005E
          /\ \E avail \in Avails, name_offset \in Offsets, entry \in NameEntries :
                Commit(w, H005E(Cxt(avail, Plenty), name_offset, entry))

Op00BF ==
    /\ Enter
    /\ \E w \in Words :
          /\ Dispatch(version, w).op = \h00BF
          /\ Commit(w, H00BF(Cxt(Plenty, Plenty)))

Op0164 ==
    /\ Enter
    /\ \E w \in Words :
          /\ Dispatch(version, w).op = \h0164
          /\ Commit(w, H0164(Cxt(Plenty, Plenty), Dispatch(version, w).parameter))

Op0185 ==
    /\ Enter
    /\ \E w \in Words :
          /\ Dispatch(version, w).op = \h0185
          /\ \E avail \in Avails :
                Commit(w, H0185(Cxt(avail, Plenty)))

\* the target offsets of ON ERROR and RESUME: a label and the two reserved values
TargetOffsets == {6, \hFFFE, \hFFFF}

Op0067 ==
    /\ Enter
    /\ \E w \in Words :
          /\ Dispatch(version, w).op \in {\h0067, \h0199}
          /\ \E avail \in {Plenty, 1}, tavail \in {Plenty, 1}, target_offset \in TargetOffsets, entry \in NameEntries :
                Commit(w, H0067(Cxt(avail, tavail), version, Dispatch(version, w).op, target_offset, entry))

Op006D ==
    /\ Enter
    /\ \E w \in Words :
          /\ Dispatch(version, w).op = \h006D
          /\ \E avail \in {Plenty, 1}, tavail \in {Plenty, 1}, label_offset \in TargetOffsets, entry \in NameEntries :
                Commit(w, H006D(Cxt(avail, tavail), label_offset, entry))

\* the letters a mask of the model may select beside all 26
MaskLetters == {0, 2, 3, 25}

RECURSIVE SumBits(_)
SumBits(bits) ==
    IF bits = {} THEN 0
    ELSE LET b == CHOOSE x \in bits : TRUE IN 2 ^ b + SumBits(bits \ {b})

\* 32-bit masks as <<high word, low word>>: letter bits 31..6, type index in
\* bits 5..0
Masks ==
    { << SumBits({ 15 - k : k \in { l \in letters : l <= 15 } }),
         SumBits({ 31 - k : k \in { l \in letters : l > 15 } }) + type >> :
        letters \in (SUBSET MaskLetters) \cup {0..25}, type \in {0, 1} }

Op001B ==
    /\ Enter
    /\ \E w \in Words :
          /\ Dispatch(version, w).op = \h001B
          /\ \E avail \in {Plenty, 5}, data \in Masks :
                Commit(w, H001B(Cxt(avail, Plenty), version, data))

\* OPEN flags words: each mode bit alone, two mode bits, the bit 0x10 that
\* selects no mode, and BINARY with every combination of access and lock bits
OpenFlags ==
    {\h0001, \h0002, \h0004, \h0008, \h0003, \h0010}
      \cup { \h0020 + access + lock :
                access \in {\h0000, \h0100, \h0200, \h0300},
                lock \in {\h0000, \h1000, \h2000, \h3000, \h4000, \h5000} }

Op00C9 ==
    /\ Enter
    /\ \E w \in Words :
          /\ Dispatch(version, w).op \in {\h00C9, \h00CA}
          /\ \E avail \in {Plenty, 1}, flags \in OpenFlags :
                Commit(w, H00C9(Cxt(avail, Plenty), Dispatch(version, w).op, flags))

\* the bytes of a comment text
CommentBytes == {\h0D, 0, 2}

\* the longest encoded comment text
MaxText == 4

\* comment texts: the two column bytes and the encoded text
CommentTexts ==
    { <<40, 0>> \o body :
        body \in UNION { [1..n -> CommentBytes] : n \in 0..MaxText } }

Op0097 ==
    /\ Enter
    /\ \E w \in Words :
          /\ Dispatch(version, w).op = \h0097
          /\ \E avail \in {Plenty, 3, 5}, text \in CommentTexts :
                Commit(w, H0097(Cxt(avail, Plenty), text))

\* float values: 0, 1, -200, 1.5, 0.5, 0.00001, 10^15, 10^16, 1.5 * 10^16, infinity
FloatValues ==
    { [inf |-> FALSE, m |-> 0, e |-> 0], [inf |-> FALSE, m |-> 1, e |-> 0],
      [inf |-> FALSE, m |-> -2, e |-> 2], [inf |-> FALSE, m |-> 15, e |-> -1],
      [inf |-> FALSE, m |-> 5, e |-> -1], [inf |-> FALSE, m |-> 1, e |-> -5],
      [inf |-> FALSE, m |-> 1, e |-> 15], [inf |-> FALSE, m |-> 1, e |-> 16],
      [inf |-> FALSE, m |-> 15, e |-> 15], [inf |-> TRUE, m |-> 1, e |-> 0] }

Op016B ==
    /\ Enter
    /\ \E w \in Words :
          /\ Dispatch(version, w).op \in {\h016B, \h016C}
          /\ \E avail \in {Plenty, 3}, value \in FloatValues :
                Commit(w, H016B(Cxt(avail, Plenty), Dispatch(version, w).op, value))

\* the opcode words of a QB40 stream: every index 0x000B..0x003A, begin line,
\* integer and double literals, XOR, words with parameter bits set, an index
\* without handler and an index beyond the maximum
QB40Words ==
    (\h000B..\h003A) \cup
    { \h0000, \h0200, \h020B, \h0190, \h0191, \h0390, \h01A2, \h01AF, \h0043, \h01B0 }

\* the subscript counts of 0x000E, 0x000F and 0x0010
ArgCounts == {1, \h8000}

\* BasicFileVersionQB40.parse_opcode on one word of a QB40 stream, with the base
\* handler it invokes
parse_opcode_QB40 ==
    /\ Enter
    /\ version = "QB40"
    /\ \E w \in QB40Words :
          LET d == Dispatch(version, w)
              c == Cxt(Plenty, Plenty)
          IN  \E argcount \in (IF d.op \in {\h000E, \h000F, \h0010} THEN ArgCounts ELSE {0}),
                 entry \in TextEntries :
                Commit(w,
                    CASE d.invalid -> Raise(c, "Invalid opcode")
                      [] d.op = \h0000 -> H0000(c, d.parameter)
                      [] d.op = \h000B -> H000B(c, version, d.parameter, 6, entry)
                      [] d.op = \h000C -> H000C(c, version, d.parameter, 6, entry)
                      [] d.op = \h000D -> H000D(c, version, d.parameter, 6, entry)
                      [] d.op = \h000E -> H000E(c, version, d.parameter, argcount, 6, entry)
                      [] d.op = \h000F -> H000F(c, version, d.parameter, argcount, 6, entry)
                      [] d.op = \h0010 -> H0010(c, version, d.parameter, argcount, 6, entry)
                      [] d.op = \h0011 -> H0011(c, version, d.parameter, 6, entry)
                      [] d.op = \h0012 -> H0012(c, version, d.parameter, 6, entry)
                      [] d.op = \h0164 -> H0164(c, d.parameter)
                      [] d.op = \h016C -> H016B(c, d.op, [inf |-> FALSE, m |-> 1, e |-> 0])
                      [] d.op = \h0179 -> H0179(c))

Op008F ==
    /\ Enter
    /\ \E w \in Words :
          /\ Dispatch(version, w).op \in \h008F..\h0096
          /\ Commit(w, H008F(Cxt(Plenty, Plenty), Dispatch(version, w).op))

Op007E ==
    /\ Enter
    /\ \E w \in Words :
          /\ Dispatch(version, w).op \in \h007E..\h0080
          /\ Commit(w, H007E(Cxt(Plenty, Plenty), Dispatch(version, w).op))

Op0081 ==
    /\ Enter
    /\ \E w \in Words :
          /\ Dispatch(version, w).op \in \h0081..\h0084
          /\ Commit(w, H0081(Cxt(Plenty, Plenty), Dispatch(version, w).op))

Op009F ==
    /\ Enter
    /\ \E w \in Words :
          /\ Dispatch(version, w).op \in {\h009F, \h00A0}
          /\ Commit(w, H009F(Cxt(Plenty, Plenty), Dispatch(version, w).op))

\* opcodes of the builtin table: statements with 0, 1 and 3 arguments, with
\* skipped words, with a count in the stream, with double and missing arguments,
\* assignment forms, functions with -1, 1, 2 and 3 arguments
BuiltinWords ==
    { \h004E, \h0043, \h0078, \h007A, \h00A2, \h00A1, \h00A3, \h00A7, \h00C5, \h00B2,
      \h010A, \h0105, \h011B, \h0125, \h012D, \h0180 }

\* the counts found in the stream
Counts == {0, 2}

OpBuiltin ==
    /\ Enter
    /\ \E w \in BuiltinWords :
          /\ ~Dispatch(version, w).invalid
          /\ Dispatch(version, w).builtin
          /\ \E count \in (IF "counted" \in Entry(Dispatch(version, w).op)[5] THEN Counts ELSE {0}) :
                Commit(w, HBuiltin(Cxt(Plenty, Plenty), Dispatch(version, w).op, count))

\* opcodes of expressions: binary and unary operators, parentheses, BYVAL, SEG
\* and the marker of a missing argument
ExpressionWords == { \h0100, \h0177, \h0174, \h0178, \h016E, \h0025, \h0036, \h0173 }

OpExpression ==
    /\ Enter
    /\ \E w \in ExpressionWords :
          LET op == Dispatch(version, w).op
              c == Cxt(Plenty, Plenty)
          IN  /\ ~Dispatch(version, w).invalid
              /\ Commit(w, IF op \in BinaryOpcodes THEN H0100(c, op)
                           ELSE IF op \in {\h0172, \h0173} THEN H0172(c, op)
                           ELSE H0174(c, op))

\* the opcodes of the builtin table with the assignment flag: DATE$, DEF SEG,
\* MID$ with 2 and 3 arguments, TIME$, ERR
AssignmentWords == { \h00A7, \h00A9, \h00C5, \h00C6, \h00EF, \h0180 }

\* the builtin dispatch on an opcode with the assignment flag
OpBuiltinAssignment ==
    /\ Enter
    /\ \E w \in AssignmentWords :
          /\ ~Dispatch(version, w).invalid
          /\ Dispatch(version, w).builtin
          /\ Commit(w, HBuiltin(Cxt(Plenty, Plenty), Dispatch(version, w).op, 0))

\* the opcodes that give a declaration statement its kind and mode, and the array
\* element REDIM takes from the stack
KindWords == { \h001A, \h001C, \h01A8, \h001E, \h001F, \h00A5, \h017D, \h000E }

\* parse_opcode on one of the declaration opcodes
OpKind ==
    /\ Enter
    /\ \E w \in KindWords :
          LET op == Dispatch(version, w).op
              c == Cxt(Plenty, Plenty)
          IN  /\ ~Dispatch(version, w).invalid
              /\ \E name_offset \in (IF op = \h00A5 THEN {6, \hFFFF} ELSE {6}),
                    entry \in TextEntries :
                    Commit(w, CASE op = \h001A -> H001A(c)
                                [] op \in {\h001C, \h01A8} -> H001C(c, op)
                                [] op \in {\h001E, \h001F} -> H001E(c, op)
                                [] op = \h00A5 -> H00A5(c, name_offset, entry)
                                [] op = \h017D -> H017D(c)
                                [] op = \h000E -> H000E(c, version, 0, \h8000, 6, entry))

\* the type indices and offsets 0x0015 carries: ANY, LONG, STRING * 5 and a user type
TypeOffsets == {0, 2, \h8005, 6}

Op0015 ==
    /\ Enter
    /\ \E w \in {\h0015} :
          /\ Dispatch(version, w).op = \h0015
          /\ \E avail \in Avails, type_offset \in TypeOffsets, entry \in TextEntries :
                Commit(w, H0015(Cxt(avail, Plenty), version, type_offset, 0, entry))

Op017C ==
    /\ Enter
    /\ \E w \in {\h017C} :
          /\ Dispatch(version, w).op = \h017C
          /\ \E avail \in Avails, size \in {5} :
                Commit(w, H017C(Cxt(avail, Plenty), size, 0))

\* the assignment opcodes: to an identifier, an array element, a field and an
\* array element of a field
TargetWords == { \h000C, \h000F, \h0012, \h0014 }

\* parse_opcode on one of the assignment opcodes
OpAssignment ==
    /\ Enter
    /\ \E w \in TargetWords :
          LET op == Dispatch(version, w).op
              c == Cxt(Plenty, Plenty)
          IN  /\ ~Dispatch(version, w).invalid
              /\ \E argcount \in (IF op \in {\h000F, \h0014} THEN {0, 1} ELSE {0}),
                    entry \in TextEntries :
                    Commit(w, CASE op = \h000C -> H000C(c, version, 0, 6, entry)
                                [] op = \h000F -> H000F(c, version, 0, argcount, 6, entry)
                                [] op = \h0012 -> H0012(c, version, 0, 6, entry)
                                [] op = \h0014 -> H0014(c, version, 0, argcount, 6, entry))

\* the indents 0x0005 carries
Indents == {0, 2}

Op0004 ==
    /\ Enter
    /\ \E w \in {\h0004} :
          /\ Dispatch(version, w).op = \h0004
          /\ \E avail \in {Plenty, 3}, tavail \in {Plenty, 1}, name_offset \in Offsets,
                entry \in NameEntries :
                Commit(w, H0004(Cxt(avail, tavail), name_offset, entry))

Op0005 ==
    /\ Enter
    /\ \E w \in {\h0005} :
          /\ Dispatch(version, w).op = \h0005
          /\ \E avail \in {Plenty, 5}, tavail \in {Plenty, 1}, name_offset \in Offsets,
                entry \in NameEntries, indent \in Indents :
                Commit(w, H0005(Cxt(avail, tavail), name_offset, entry, indent))

\* get_header_size of the dialect (VBDOS: before the additional values)
get_header_size(v) ==
    CASE v = "QB40" -> \h0E
      [] v = "QB45" -> \h1C
      [] v \in {"QB70", "QB71"} -> \h1D
      [] v = "VBDOS" -> \h20

\* the bytes between a position and the end of the file
BytesFrom(position) == IF position >= file_end THEN 0 ELSE file_end - position

\* the bytes from the name-table entry at name_offset (after the link word) to
\* the end of the file
TableAvail(name_offset) == BytesFrom(get_header_size(version) + name_offset + 2)

\* file.tell() after the reads of a context that started with the bytes left in
\* the file; a read that came short has consumed the rest
TellAfter(c) == IF c.err = "struct.error" THEN file_end ELSE file_end - c.avail

\* The state a handler leaves behind, its read position included
StoreAt(c) ==
    /\ stack' = c.stack
    /\ positional_arguments' = c.positional_arguments
    /\ deffns' = c.deffns
    /\ procedures' = c.procedures
    /\ variable_names' = c.variable_names
    /\ lastRead' = c.lastRead
    /\ lastPop' = c.lastPop
    /\ table_reads' = c.table_reads
    /\ lastOffset' = c.lastOffset
    /\ lastData' = c.lastData
    /\ eof' = c.hit
    /\ tell' = TellAfter(c)

\* the sizes of the files followed byte by byte: cut inside the signature, inside
\* the header, inside the stream length, inside and after the main stream, and
\* with a procedure record and its stream
FileSizes == {2, 27, 41, 45, 46, 72, 76}

\* the u16 at the end of the header: the length of the name table
NameTableLengths == {12}

\* the u16 length in front of an opcode stream
StreamLengths == {0, 4, 6}

\* parse_binary on a QuickBASIC 4.5 file of the given size
parse_binary_sized == ParseBinarySized({\hFC}, {\h0100}, {Min(file_end, 3)})

\* parse_versioned_binary from its first line to the u16 length parse_opcodes
\* reads, with the seeks to the end of the header and to the first stream
parse_header_sized ==
    /\ pc = "header"
    /\ \E procedures_offset \in NameTableLengths, length \in StreamLengths :
          LET header_size == get_header_size(version)
              c0 == [Cxt(BytesFrom(header_size - 2), Plenty) EXCEPT
                        !.procedures = <<Procedure(0, FALSE)>>]
              c1 == read16(c0)
              c2 == IF c1.err # "" THEN c1
                    ELSE read16([c1 EXCEPT !.avail = BytesFrom(header_size + procedures_offset)])
          IN  /\ StoreAt(c2)
              /\ stream_end' = TellAfter(c2) + length
              /\ IF c2.err # "" THEN Caught(c2)
                 ELSE pc' = "stream" /\ UNCHANGED <<error, stdout>>
              /\ UNCHANGED <<limit, file_end, lastRest, signature, version_number, version,
                             main_form, stderr, exitcode, lastOp, lastWord, nops>>

\* the opcodes followed byte by byte: begin line, a literal, an identifier and a
\* labelled line (the last two look a name up)
SizedWords == { \h0000, \h0564, \h000B, \h0004 }

\* one round of the loop of parse_opcodes: while file.tell() < length + start,
\* read16 of the opcode word and its handler
parse_opcode_sized ==
    /\ pc = "stream"
    /\ tell < stream_end
    /\ \E w \in SizedWords, entry \in NameEntries :
          LET op == Dispatch(version, w).op
              parameter == Dispatch(version, w).parameter
              c0 == read16(Cxt(BytesFrom(tell), TableAvail(6)))
              c == CASE op = \h0000 -> H0000(c0, parameter)
                     [] op = \h0164 -> H0164(c0, parameter)
                     [] op = \h000B -> H000B(c0, version, 0, 6, entry)
                     [] op = \h0004 -> H0004(c0, 6, entry)
          IN  /\ StoreAt(c)
              /\ lastOp' = IF c0.err # "" THEN lastOp ELSE op
              /\ lastWord' = IF c0.err # "" THEN lastWord ELSE w
              /\ nops' = IF c0.err # "" THEN nops ELSE nops + 1
              /\ IF c.err # "" THEN Caught(c)
                 ELSE pc' = "stream" /\ UNCHANGED <<error, stdout>>
              /\ UNCHANGED <<limit, file_end, stream_end, lastRest, signature, version_number,
                             version, main_form, stderr, exitcode>>

\* parse_opcodes: the loop ends, file.tell() has reached length + start
parse_opcodes_sized_end ==
    /\ pc = "stream"
    /\ tell >= stream_end
    /\ pc' = "records"
    /\ UNCHANGED <<limit, tell, file_end, stream_end, lastRest, signature, version_number,
                   version, eof, stack, positional_arguments, deffns, procedures,
                   variable_names, main_form, stdout, stderr, exitcode, error,
                   lastOp, lastWord, lastRead, lastPop, table_reads, lastOffset, lastData, nops>>

\* The loop of parse_versioned_binary on a file of the given size: while
\* file.tell() + 16 < end a procedure record is read and its stream entered
procedure_record_sized ==
    /\ pc = "records"
    /\ \E name_length \in {0, 2}, flags \in {\h00, \h80}, length \in StreamLengths :
          /\ lastRest' = BytesFrom(tell)
          /\ IF RecordFollows(BytesFrom(tell))
             THEN LET c1 == FileSkip(Cxt(BytesFrom(tell + 16), Plenty), 1)
                      c2 == read16(c1)
                      c3 == FileRead(c2, name_length)
                      c4 == FileSkip(c3, 2)
                      c5 == read8(c4)
                      c6 == IF c5.err # "" THEN c5
                            ELSE [c5 EXCEPT !.procedures =
                                    Append(@, Procedure(c3.ret, flags >= \h80))]
                      c7 == read16(c6)
                  IN  /\ StoreAt(c7)
                      /\ stream_end' = TellAfter(c7) + length
                      /\ IF c7.err # "" THEN Caught(c7)
                         ELSE pc' = "stream" /\ UNCHANGED <<error, stdout>>
             ELSE /\ pc' = "returned"
                  /\ UNCHANGED <<tell, stream_end, eof, stack, positional_arguments, deffns,
                                 procedures, variable_names, lastRead, lastPop, table_reads,
                                 lastOffset, lastData, error, stdout>>
          /\ UNCHANGED <<limit, file_end, signature, version_number, version, main_form,
                         stderr, exitcode, lastOp, lastWord, nops>>

\* the raise of "Invalid opcode" by either dispatcher
InvalidOpcode ==
    /\ Enter
    /\ \E w \in Words :
          /\ Dispatch(version, w).invalid
          /\ Commit(w, Raise(Cxt(Plenty, Plenty), "Invalid opcode"))

-----------------------------------------------------------------------------
(* Specifications *)

\* any file, with line and literal opcodes in the streams
Next ==
    \/ parse_binary
    \/ parse_header
    \/ parse_opcodes_eof
    \/ parse_opcodes_end
    \/ procedure_record
    \/ main_print
    \/ Op0000
    \/ Op0164
    \/ Op0185
    \/ InvalidOpcode

Spec == Init /\ [][Next]_vars

\* declaration opcodes in the streams
NextDecl ==
    \/ parse_binary_QB45_VBDOS
    \/ parse_header
    \/ parse_opcodes_eof
    \/ parse_opcodes_end
    \/ procedure_record
    \/ main_print
    \/ Op0000
    \/ Op000D
    \/ Op0016
    \/ Op00BF
    \/ Op0164
    \/ Op0045
    \/ Op0026

SpecDecl == Init /\ [][NextDecl]_vars

\* CALL statements in the streams
NextCall ==
    \/ parse_binary_QB45
    \/ parse_header
    \/ parse_opcodes_eof
    \/ parse_opcodes_end
    \/ procedure_record
    \/ main_print
    \/ Op0000
    \/ Op0164
    \/ Op0037

SpecCall == Init /\ [][NextCall]_vars

\* identifier references in the streams of every dialect
NextName ==
    \/ parse_binary_dialects
    \/ parse_header
    \/ parse_opcodes_eof
    \/ parse_opcodes_end
    \/ procedure_record
    \/ main_print
    \/ Op000B

SpecName == Init /\ [][NextName]_vars

\* single-line IF and ELSE in the streams
NextIf ==
    \/ parse_binary_QB45
    \/ parse_header
    \/ parse_opcodes_eof
    \/ parse_opcodes_end
    \/ procedure_record
    \/ main_print
    \/ Op0000
    \/ Op0164
    \/ Op005D
    \/ Op005E
    \/ Op0049
    \/ Op004C
    \/ Op005B

SpecIf == InitLong /\ [][NextIf]_vars

\* DEF FN in the streams
NextDefFn ==
    \/ parse_binary_QB45
    \/ parse_header
    \/ parse_opcodes_eof
    \/ parse_opcodes_end
    \/ procedure_record
    \/ main_print
    \/ Op0000
    \/ Op0006
    \/ Op0164
    \/ Op0045
    \/ Op0026
    \/ Op004F
    \/ Op0055

SpecDefFn == InitLong /\ [][NextDefFn]_vars

\* ON ERROR and RESUME statements in the streams of every dialect
NextResume ==
    \/ parse_binary_dialects
    \/ parse_header
    \/ parse_opcodes_eof
    \/ parse_opcodes_end
    \/ procedure_record
    \/ main_print
    \/ Op0000
    \/ Op0067
    \/ Op006D

SpecResume == Init /\ [][NextResume]_vars

\* a single-line IF with implicit GOTOs on an identifier, QuickBASIC 4.5
NextLineIf ==
    \/ parse_binary_QB45
    \/ parse_header
    \/ parse_opcodes_eof
    \/ parse_opcodes_end
    \/ procedure_record
    \/ main_print
    \/ Op0000
    \/ Op000B
    \/ Op005E
    \/ Op004C

SpecLineIf == InitLong /\ [][NextLineIf]_vars

\* DEFtype statements in the streams
NextDefType ==
    \/ parse_binary_QB45
    \/ parse_header
    \/ parse_opcodes_eof
    \/ parse_opcodes_end
    \/ procedure_record
    \/ main_print
    \/ Op0000
    \/ Op001B

SpecDefType == Init /\ [][NextDefType]_vars

\* OPEN statements on integer operands in the main stream, QuickBASIC 4.5
NextOpen ==
    \/ parse_binary_QB45
    \/ parse_header
    \/ parse_opcodes_eof
    \/ parse_opcodes_end
    \/ Op0000
    \/ Op0164
    \/ Op00C9

SpecOpen == InitLonger /\ [][NextOpen]_vars

\* line comments in the main stream, QuickBASIC 4.5
NextComment ==
    \/ parse_binary_QB45
    \/ parse_header
    \/ parse_opcodes_eof
    \/ parse_opcodes_end
    \/ Op0000
    \/ Op0097

SpecComment == Init /\ [][NextComment]_vars

\* floating-point literals in the main stream, QuickBASIC 4.5
NextFloat ==
    \/ parse_binary_QB45
    \/ parse_header
    \/ parse_opcodes_eof
    \/ parse_opcodes_end
    \/ Op016B

SpecFloat == Init /\ [][NextFloat]_vars

\* a QB40 file whose stream holds the words QB40Words
parse_binary_QB40 == ParseBinary({\hFC}, {\h0013})

NextQB40 ==
    \/ parse_binary_QB40
    \/ parse_header
    \/ parse_opcodes_eof
    \/ parse_opcodes_end
    \/ parse_opcode_QB40

SpecQB40 == Init /\ [][NextQB40]_vars

\* PRINT items on plain lines and after a single-line IF, QuickBASIC 4.5
NextPrint ==
    \/ parse_binary_QB45
    \/ parse_header
    \/ parse_opcodes_eof
    \/ parse_opcodes_end
    \/ Op0000
    \/ Op0164
    \/ Op005D
    \/ Op008F

SpecPrint == InitLonger /\ [][NextPrint]_vars

\* CIRCLE statements with their positional arguments, QuickBASIC 4.5
InitLongest == InitWith(MaxOps + 3)

NextCircle ==
    \/ parse_binary_QB45
    \/ parse_header
    \/ parse_opcodes_eof
    \/ parse_opcodes_end
    \/ Op0000
    \/ Op0006
    \/ Op0164
    \/ Op007E
    \/ Op0081
    \/ Op009F

SpecCircle == InitLongest /\ [][NextCircle]_vars

\* builtin statements and functions and expression opcodes in the main stream of
\* a QuickBASIC 7.1 file
parse_binary_QB71 == ParseBinary({\hFC}, {\h0102})

NextBuiltin ==
    \/ parse_binary_QB71
    \/ parse_header
    \/ parse_opcodes_eof
    \/ parse_opcodes_end
    \/ Op0000
    \/ Op0164
    \/ OpBuiltin
    \/ OpExpression

SpecBuiltin == Init /\ [][NextBuiltin]_vars

\* assignments to builtins in the main stream of a QuickBASIC 7.1 file
NextAssign ==
    \/ parse_binary_QB71
    \/ parse_header
    \/ parse_opcodes_eof
    \/ parse_opcodes_end
    \/ Op0000
    \/ Op0164
    \/ OpBuiltinAssignment

SpecAssign == InitLonger /\ [][NextAssign]_vars

\* declaration statements in the main stream of a QuickBASIC 7.1 file
NextKind ==
    \/ parse_binary_QB71
    \/ parse_header
    \/ parse_opcodes_eof
    \/ parse_opcodes_end
    \/ Op0000
    \/ Op0006
    \/ OpKind

SpecKind == InitLong /\ [][NextKind]_vars

\* declarators and their types in the main stream of a QuickBASIC 4.5 file
NextType ==
    \/ parse_binary_QB45
    \/ parse_header
    \/ parse_opcodes_eof
    \/ parse_opcodes_end
    \/ Op0000
    \/ Op0006
    \/ Op000D
    \/ Op0015
    \/ Op0016
    \/ Op017C

SpecType == Init /\ [][NextType]_vars

\* DEF FN blocks and EXIT statements in the main stream, six opcodes deep
NextExit ==
    \/ parse_binary_QB45
    \/ parse_header
    \/ parse_opcodes_eof
    \/ parse_opcodes_end
    \/ Op0000
    \/ Op0006
    \/ Op0045
    \/ Op004F
    \/ Op0055

SpecExit == InitLongest /\ [][NextExit]_vars

\* LET and the assignments in the main stream of a QuickBASIC 4.5 file
NextLet ==
    \/ parse_binary_QB45
    \/ parse_header
    \/ parse_opcodes_eof
    \/ parse_opcodes_end
    \/ Op0000
    \/ Op0164
    \/ Op00BF
    \/ OpAssignment

SpecLet == InitLonger /\ [][NextLet]_vars

\* lines, operands and positional arguments in the main stream of a QuickBASIC
\* 4.5 file
NextLine ==
    \/ parse_binary_QB45
    \/ parse_header
    \/ parse_opcodes_eof
    \/ parse_opcodes_end
    \/ Op0000
    \/ Op0004
    \/ Op0005
    \/ Op0006
    \/ Op0164
    \/ Op0081

SpecLine == InitLonger /\ [][NextLine]_vars

\* the decode of QuickBASIC 4.5 files of given sizes, followed byte by byte to its
\* end
NextSized ==
    \/ parse_binary_sized
    \/ parse_header_sized
    \/ parse_opcode_sized
    \/ parse_opcodes_sized_end
    \/ procedure_record_sized

SpecSized == InitFile(MaxOps, FileSizes) /\ [][NextSized]_vars

-----------------------------------------------------------------------------
(* Printing: the text print() returns *)

\* bytes.decode('cp437') of a name, str() of a numeric one
RECURSIVE Decode(_)
Decode(name) == IF name = <<>> THEN "" ELSE name[1] \o Decode(Tail(name))

\* <type>.get_suffix
get_suffix(type) ==
    CASE type = "INTEGER" -> "%" [] type = "LONG" -> "&" [] type = "SINGLE" -> "!"
      [] type = "DOUBLE" -> "#" [] type = "CURRENCY" -> "@" [] type = "STRING" -> "$"

\* Identifier.print, DecimalInteger.print
PrintExpr(e) ==
    CASE e.cls = "Identifier" ->
            Decode(e.name) \o (IF e.suffix # "None" THEN get_suffix(e.suffix) ELSE "")
      [] e.cls = "DecimalInteger" -> ToString(e.value)

\* <type>.get_short_name
get_short_name(type) ==
    CASE type = "INTEGER" -> "INT" [] type = "LONG" -> "LNG" [] type = "SINGLE" -> "SNG"
      [] type = "DOUBLE" -> "DBL" [] type = "CURRENCY" -> "CUR" [] type = "STRING" -> "STR"

\* chr(ord('A') + i)
Chr(i) == SubSeq("ABCDEFGHIJKLMNOPQRSTUVWXYZ", i + 1, i + 1)

\* ", ".join(texts)
RECURSIVE JoinComma(_)
JoinComma(texts) ==
    IF texts = <<>> THEN ""
    ELSE IF Len(texts) = 1 THEN texts[1]
    ELSE texts[1] \o ", " \o JoinComma(Tail(texts))

\* the loop of DefTypeDeclaration.print over the letters from number i on: a
\* letter extends the last range when that range ends at the letter before it
RECURSIVE DefTypeRanges(_, _, _)
DefTypeRanges(letters, i, ranges) ==
    IF i > 25 THEN ranges
    ELSE IF i \notin letters THEN DefTypeRanges(letters, i + 1, ranges)
    ELSE IF Len(ranges) > 0 /\ Last(ranges)[2] = i - 1
    THEN DefTypeRanges(letters, i + 1, SetLast(ranges, <<Last(ranges)[1], i>>))
    ELSE DefTypeRanges(letters, i + 1, Append(ranges, <<i, i>>))

\* DefTypeDeclaration.print
DefTypePrint(s) ==
    LET ranges == DefTypeRanges(s.letters, 0, <<>>)
    IN  "DEF" \o get_short_name(s.as_type) \o " "
          \o JoinComma([k \in DOMAIN ranges |->
                           IF ranges[k][1] # ranges[k][2]
                           THEN Chr(ranges[k][1]) \o "-" \o Chr(ranges[k][2])
                           ELSE Chr(ranges[k][1])])

\* print of EmptyStatement, GotoStatement, ElseStatement, LineIfStatement,
\* DefTypeDeclaration and OpenStatement
RECURSIVE PrintStatement(_)
PrintStatement(s) ==
    CASE s.cls = "EmptyStatement" -> ""
      [] s.cls = "DefTypeDeclaration" -> DefTypePrint(s)
      [] s.cls = "OpenStatement" ->
            "OPEN " \o PrintExpr(s.filename) \o " FOR " \o s.mode
                \o (IF s.access # "None" THEN " ACCESS " \o s.access ELSE "")
                \o (IF s.lock = "SHARED" THEN " SHARED"
                    ELSE IF s.lock # "None" THEN " LOCK " \o s.lock ELSE "")
                \o " AS " \o PrintExpr(s.filenumber)
                \o (IF ~IsNone(s.length) THEN " LEN = " \o PrintExpr(s.length) ELSE "")
      [] s.cls = "GotoStatement" ->
            (IF ~s.implicit THEN "GOTO " ELSE "") \o PrintExpr(s.target)
      [] s.cls = "ElseStatement" ->
            "ELSE" \o (IF s.action.cls # "EmptyStatement"
                       THEN " " \o PrintStatement(s.action) ELSE "")
      [] s.cls = "LineIfStatement" ->
            "IF " \o PrintExpr(s.condition) \o " THEN " \o PrintStatement(s.then_branch)
                \o (IF ~IsNone(s.else_branch)
                    THEN " " \o PrintStatement(s.else_branch) ELSE "")

\* n zeros
RECURSIVE Zeros(_)
Zeros(n) == IF n <= 0 THEN "" ELSE "0" \o Zeros(n - 1)

\* str(float): repr of m * 10^e; the exponent form is used when the decimal
\* exponent is below -4 or at least 16, with a sign and at least two digits
FloatStr(value) ==
    IF value.inf THEN "inf"
    ELSE IF value.m = 0 THEN "0.0"
    ELSE LET sign == IF value.m < 0 THEN "-" ELSE ""
             digits == ToString(IF value.m < 0 THEN -value.m ELSE value.m)
             n == Len(digits)
             x == n - 1 + value.e
             ax == IF x < 0 THEN -x ELSE x
         IN  IF x >= -4 /\ x < 16
             THEN IF value.e >= 0 THEN sign \o digits \o Zeros(value.e) \o ".0"
                  ELSE IF x >= 0
                  THEN sign \o SubSeq(digits, 1, x + 1) \o "." \o SubSeq(digits, x + 2, n)
                  ELSE sign \o "0." \o Zeros(-x - 1) \o digits
             ELSE sign \o SubSeq(digits, 1, 1)
                    \o (IF n > 1 THEN "." \o SubSeq(digits, 2, n) ELSE "")
                    \o "e" \o (IF x < 0 THEN "-" ELSE "+")
                    \o (IF ax < 10 THEN "0" ELSE "") \o ToString(ax)

\* str.upper on the characters str(float) produces
RECURSIVE Upper(_)
Upper(text) ==
    IF text = "" THEN ""
    ELSE LET ch == SubSeq(text, 1, 1)
         IN  (CASE ch = "e" -> "E" [] ch = "i" -> "I" [] ch = "n" -> "N"
                [] ch = "f" -> "F" [] ch = "a" -> "A" [] OTHER -> ch)
               \o Upper(SubSeq(text, 2, Len(text)))

\* ch in text
HasChar(text, ch) == \E k \in 1..Len(text) : SubSeq(text, k, k) = ch

\* text.replace('E', 'D')
RECURSIVE ReplaceED(_)
ReplaceED(text) ==
    IF text = "" THEN ""
    ELSE (IF SubSeq(text, 1, 1) = "E" THEN "D" ELSE SubSeq(text, 1, 1))
           \o ReplaceED(SubSeq(text, 2, Len(text)))

\* the text of FloatLiteral.print after .upper() and the removal of a trailing
\* ".0" and of a leading "0"
FloatText(value) ==
    LET t0 == Upper(FloatStr(value))
        t1 == IF Len(t0) >= 2 /\ SubSeq(t0, Len(t0) - 1, Len(t0)) = ".0"
              THEN SubSeq(t0, 1, Len(t0) - 2) ELSE t0
    IN  IF Len(t1) >= 2 /\ SubSeq(t1, 1, 2) = "0." THEN SubSeq(t1, 2, Len(t1)) ELSE t1

\* a print that appends the suffix to every text
FloatLiteralPrintSuffixed(f) == FloatText(f.value) \o f.suffix

\* FloatLiteral.print
FloatLiteralPrint(f) ==
    LET text == FloatText(f.value)
    IN  IF f.suffix = "#" /\ HasChar(text, "E") THEN ReplaceED(text)
        ELSE IF f.suffix = "!" /\ (HasChar(text, ".") \/ HasChar(text, "E")) THEN text
        ELSE text \o f.suffix

-----------------------------------------------------------------------------
(* Properties *)

\* every statement of the tree, outermost only
Positions(procs) ==
    { <<p, l, k>> \in (DOMAIN procs) \X (1..limit) \X (1..(limit + 1)) :
        /\ l \in DOMAIN procs[p].lines
        /\ k \in DOMAIN procs[p].lines[l].statements }

StatementAt(procs, pos) == procs[pos[1]].lines[pos[2]].statements[pos[3]]

\* the position of the statement under construction
CurrentPosition(procs) ==
    IF procs = <<>> \/ Last(procs).lines = <<>> THEN <<0, 0, 0>>
    ELSE <<Len(procs), Len(Last(procs).lines), Len(Last(Last(procs).lines).statements)>>

\* a statement without the bodies of its DEF FN headers
RECURSIVE EraseDefinitions(_)
EraseDefinitions(s) ==
    CASE s.cls = "DefFnDeclaration" -> [s EXCEPT !.definition = None]
      [] s.cls = "LineIfStatement" ->
            [s EXCEPT !.then_branch = EraseDefinitions(s.then_branch),
                      !.else_branch = IF IsNone(s.else_branch) THEN s.else_branch
                                      ELSE EraseDefinitions(s.else_branch)]
      [] s.cls = "ElseStatement" -> [s EXCEPT !.action = EraseDefinitions(s.action)]
      [] OTHER -> s

\* a decode error is raised in an opcode stream by this step
DecodeFails == pc = "stream" /\ error' # ""

\* C1 as stated: when an opcode of a stream raises a decode error, parse_binary
\* returns, every line and every (non-placeholder) statement decoded before the
\* failing opcode is the same afterwards, and the procedure list stays as it is
\* from then on
C1_KeptUnchanged ==
    [][ /\ DecodeFails =>
             /\ pc' = "returned"
             /\ Len(procedures') = Len(procedures)
             /\ \A pos \in Positions(procedures) :
                   \/ StatementAt(procedures, pos) = EmptyStatement
                   \/ /\ pos \in Positions(procedures')
                      /\ StatementAt(procedures', pos) = StatementAt(procedures, pos)
        /\ error # "" => procedures' = procedures ]_vars

\* C1 as amended: when an opcode of a stream raises a decode error, parse_binary
\* returns, no procedure, line or statement decoded before is removed, and every
\* statement is the same afterwards except the one under construction (the last
\* statement of the current line) and the body of a DEF FN header, which keep
\* what the failing opcode did before it raised; the procedure list stays as it
\* is from then on
C1_KeptButCurrent ==
    [][ /\ DecodeFails =>
             /\ pc' = "returned"
             /\ Len(procedures') = Len(procedures)
             /\ \A pos \in Positions(procedures) :
                   /\ pos \in Positions(procedures')
                   /\ \/ pos = CurrentPosition(procedures)
                      \/ EraseDefinitions(StatementAt(procedures', pos))
                            = EraseDefinitions(StatementAt(procedures, pos))
        /\ error # "" => procedures' = procedures ]_vars

\* a decode error that left its partial effect: a second, nameless declarator on
\* a declaration that was decoded before
C1_Witness ==
    /\ pc = "returned"
    /\ error = "Invalid built-in type"
    /\ \E pos \in Positions(procedures) :
          /\ StatementAt(procedures, pos).cls = "VariableDeclarationStatement"
          /\ Len(StatementAt(procedures, pos).declarations) = 2

\* C2: a run on a file with a valid signature and version exits with status 0
C2_ExitZero ==
    (pc = "exited" /\ signature = \hFC /\ version # "None") => exitcode = 0

\* C3: standard output holds nothing but the program text and the form dump
C3_StdoutProgramOnly ==
    \A i \in DOMAIN stdout : stdout[i].t # "traceback"

OpcodeIndex(v, w) == IF v = "QB40" THEN w % 512 ELSE w % 1024

\* the maximum opcode index of each dialect, as C5 lists them
StatedMaximum(v) ==
    CASE v = "QB40" -> \h01AF
      [] v = "QB45" -> \h017D
      [] v = "QB70" -> \h01A7
      [] v = "QB71" -> \h01A8
      [] v = "VBDOS" -> \h01D1

\* the index has neither a handler nor a builtin-table entry (QB40: the 9-bit
\* indices that have none after the renumbering)
Unhandled(v, index) ==
    IF v = "QB40"
    THEN index \in {\h0001, \h0002, \h0003, \h0008, \h0043, \h004D, \h005D, \h005E,
                    \h0073, \h0074, \h0083, \h0085, \h0088, \h0089, \h00A4, \h00A5,
                    \h00B4, \h00B5, \h00B6, \h00B7, \h00C1}
    ELSE ~InRanges(index, HandlerRanges) /\ ~InRanges(index, BUILTINS)

C6_PopReturnsAll == lastPop[2] = lastPop[1]

\* C7: a read returns as many bytes as it was asked for
C7_ReadReturnsAll == lastRead[2] = lastRead[1]

\* a declarator without a name, at any depth of the statement
RECURSIVE HasNameless(_)
HasNameless(s) ==
    CASE s.cls = "VariableDeclarationStatement" ->
            \E i \in DOMAIN s.declarations : IsNone(s.declarations[i].name)
      [] s.cls = "LineIfStatement" ->
            \/ HasNameless(s.then_branch)
            \/ (~IsNone(s.else_branch) /\ HasNameless(s.else_branch))
      [] s.cls = "ElseStatement" -> HasNameless(s.action)
      [] OTHER -> FALSE

\* C8: after a decode that raised no error every declarator has a name
C8_DeclaratorsNamed ==
    (pc \in {"returned", "exited"} /\ error = "") =>
        \A pos \in Positions(procedures) : ~HasNameless(StatementAt(procedures, pos))

\* every single-line IF of the statement, at any depth, has a THEN branch
RECURSIVE ThenNonNull(_)
ThenNonNull(s) ==
    CASE s.cls = "LineIfStatement" ->
            /\ ~IsNone(s.then_branch)
            /\ ThenNonNull(s.then_branch)
            /\ (IsNone(s.else_branch) \/ ThenNonNull(s.else_branch))
      [] s.cls = "ElseStatement" -> ~IsNone(s.action) /\ ThenNonNull(s.action)
      [] OTHER -> TRUE

\* from old to new no single-line IF lost its ELSE branch, and one was gained
\* only if byElse
RECURSIVE ElseStep(_, _, _)
ElseStep(old, new, byElse) ==
    CASE old.cls = "LineIfStatement" ->
            /\ new.cls = "LineIfStatement"
            /\ ElseStep(old.then_branch, new.then_branch, byElse)
            /\ IF IsNone(old.else_branch)
               THEN IsNone(new.else_branch) \/ byElse
               ELSE /\ ~IsNone(new.else_branch)
                    /\ ElseStep(old.else_branch, new.else_branch, byElse)
      [] old.cls = "ElseStatement" ->
            /\ new.cls = "ElseStatement"
            /\ ElseStep(old.action, new.action, byElse)
      [] OTHER -> TRUE

RECURSIVE Flat(_, _)
Flat(lines, l) ==
    IF l > Len(lines) THEN <<>> ELSE lines[l].statements \o Flat(lines, l + 1)

\* every DEF FN header of the procedure has its body or is followed by an END DEF
\* of its own
Closed(proc) ==
    LET flat == Flat(proc.lines, 1)
        open(i) == flat[i].cls = "DefFnDeclaration" /\ IsNone(flat[i].definition)
    IN  \A i \in DOMAIN flat :
            open(i) =>
                Cardinality({ j \in DOMAIN flat : j > i /\ flat[j] = EndDeclaration("DEF") })
                    >= Cardinality({ j \in DOMAIN flat : j >= i /\ open(j) })

\* C10: when every DEF FN header of a procedure was followed by its close the
\* def-fn stack is empty at the end of the procedure, and it is empty when the
\* stream of the next procedure is entered
C10_DefFnsClosed ==
    /\ (pc = "records" /\ error = "" /\ \A p \in DOMAIN procedures : Closed(procedures[p]))
          => deffns = <<>>
    /\ (pc = "stream" /\ Len(procedures) > 1 /\ Last(procedures).lines = <<>>)
          => deffns = <<>>

\* a step in which the handler of the given base opcode ran
Handled(opcode) == pc = "stream" /\ nops' = nops + 1 /\ lastOp' = opcode

\* the identifiers 0x000B left on the operand stack
Resolved == { i \in DOMAIN stack : stack[i].cls = "Identifier" }

\* C11: in every dialect, every resolution of an offset returns an identifier
\* with that offset and the name the first resolution read; the entry of an
\* offset is read from the file at most once, a cached name never changes, and
\* the identifier a resolution returns carries the suffix of its own opcode
\* only, whatever suffix was set on identifiers returned before, which stay as
\* they are.
C11_ReadvarIdempotent ==
    /\ [](/\ \A o \in DOMAIN table_reads : table_reads[o] <= 1
          /\ \A i \in Resolved :
                /\ stack[i].offset \in DOMAIN variable_names
                /\ stack[i].name = variable_names[stack[i].offset]
          /\ \A i, j \in Resolved :
                stack[i].offset = stack[j].offset => stack[i].name = stack[j].name)
    /\ [][/\ \A o \in DOMAIN variable_names :
                o \in DOMAIN variable_names' /\ variable_names'[o] = variable_names[o]
          /\ Handled(\h000B) /\ error' = "" =>
                /\ stack' = Append(stack, Last(stack'))
                /\ Last(stack').suffix =
                      IF Dispatch(version, lastWord').parameter = 0 THEN "None"
                      ELSE get_builtin_type(version, Dispatch(version, lastWord').parameter)
                /\ Last(stack').offset \in DOMAIN variable_names =>
                      /\ table_reads' = table_reads
                      /\ Last(stack').name = variable_names[Last(stack').offset]]_vars

\* an offset resolved with a suffix, another offset resolved, the first offset
\* resolved again without one
C11_Witness ==
    /\ Len(stack) = 3
    /\ stack[1].offset = 6 /\ stack[1].suffix # "None"
    /\ stack[2].offset = 10
    /\ stack[3].offset = 6 /\ stack[3].suffix = "None" /\ stack[3].name = stack[1].name
    /\ table_reads[6] = 1

\* the statement under construction
CurrentStatement(procs) == StatementAt(procs, CurrentPosition(procs))

\* C12: in every dialect, when 0x0067, 0x0199 or 0x006D reads the target offset
\* 0xFFFE or 0xFFFF, no name-table entry is read and nothing is cached, and the
\* statement put has a null target for 0xFFFE and the integer 0 for 0xFFFF.
C12_ReservedOffsets ==
    [][(\/ Handled(\h0067) \/ Handled(\h0199) \/ Handled(\h006D))
        /\ lastOffset' \in {\hFFFE, \hFFFF}
       => /\ table_reads' = table_reads
          /\ variable_names' = variable_names
          /\ error' \in {"", "IndexError", "Statements cannot be combined"}
          /\ error' = "" =>
                CurrentStatement(procedures').target =
                    IF lastOffset' = \hFFFE THEN None ELSE DecimalInteger(0)]_vars

\* the record loop tested its condition and read a procedure record (all of it,
\* or up to the end of a file that ends inside it)
RecordRead ==
    /\ pc = "records"
    /\ \/ procedures' # procedures /\ Len(procedures') = Len(procedures) + 1
       \/ error' # "" /\ pc' = "returned"

\* the record loop tested its condition and parse_versioned_binary returned with
\* nothing read
LoopEnded ==
    /\ pc = "records" /\ pc' = "returned"
    /\ UNCHANGED <<procedures, error, stdout, eof, lastRead, stack, variable_names>>

\* C13 as stated: after an opcode stream, a procedure record is read when 16 or
\* more bytes remain and the loop ends, reading nothing, when fewer remain.
C13_SixteenOrMore ==
    [][pc = "records" =>
          IF lastRest' >= 16 THEN RecordRead ELSE LoopEnded]_vars

\* C13: after an opcode stream, a procedure record is read when more than 16
\* bytes remain and the loop ends, reading nothing, when 16 or fewer remain.
C13_MoreThanSixteen ==
    [][pc = "records" =>
          IF lastRest' > 16 THEN RecordRead ELSE LoopEnded]_vars

\* a second procedure was read and the loop ended with exactly 16 bytes left
C13_Witness ==
    /\ pc = "returned" /\ error = ""
    /\ lastRest = 16
    /\ Len(procedures) = 2

\* the line decoded from begin-line, an identifier and 0x005E: one statement,
\* IF x THEN <label>, and an empty operand stack
IfThenLabel ==
    /\ pc = "stream" /\ nops = 3 /\ stack = <<>>
    /\ Len(procedures) = 1 /\ Len(procedures[1].lines) = 1
    /\ Len(procedures[1].lines[1].statements) = 1
    /\ LET s == procedures[1].lines[1].statements[1]
       IN  /\ s.cls = "LineIfStatement"
           /\ s.condition.cls = "Identifier"
           /\ s.then_branch = GotoStatement(s.then_branch.target, TRUE)
           /\ IsNone(s.else_branch)

\* C14: on the line decoded from begin-line, x and 0x005E, the opcode 0x004C
\* (whose operands the file holds in full) raises no error with the operand stack
\* empty, leaves condition and THEN branch as they are and sets the ELSE branch
\* to ELSE with the implicit GOTO of the label read; the statement prints as
\* IF x THEN <label> ELSE <label>, without GOTO.
C14_IfThenElseLabels ==
    [][IfThenLabel /\ Handled(\h004C) /\ error' # "struct.error" =>
          /\ error' = ""
          /\ LET old == procedures[1].lines[1].statements[1]
                 new == procedures'[1].lines[1].statements[1]
             IN  /\ new.condition = old.condition
                 /\ new.then_branch = old.then_branch
                 /\ new.else_branch.cls = "ElseStatement"
                 /\ new.else_branch.action =
                        GotoStatement(new.else_branch.action.target, TRUE)
                 /\ new.else_branch.action.target.offset = lastOffset'
                 /\ PrintStatement(new) =
                        "IF " \o PrintExpr(old.condition)
                          \o " THEN " \o PrintExpr(old.then_branch.target)
                          \o " ELSE " \o PrintExpr(new.else_branch.action.target)]_vars

\* bit b (0..31) of the u32 <<high word, low word>>
Bit32(data, b) ==
    IF b >= 16 THEN (data[1] \div (2 ^ (b - 16))) % 2 = 1 ELSE (data[2] \div (2 ^ b)) % 2 = 1

\* the letter a maximal run of selected letters that starts with letter a ends with
RunEnd(letters, a) ==
    CHOOSE b \in a..25 : (\A x \in a..b : x \in letters) /\ (b + 1) \notin letters

\* the maximal runs that start at letter n or later, in ascending order: a run
\* of one letter as the letter, a longer one as first-last, joined by ", "
RECURSIVE RunsFrom(_, _)
RunsFrom(letters, n) ==
    LET starts == { a \in letters : a >= n /\ (a - 1) \notin letters }
    IN  IF starts = {} THEN ""
        ELSE LET a == CHOOSE x \in starts : \A y \in starts : x <= y
                 b == RunEnd(letters, a)
                 rest == RunsFrom(letters, b + 1)
             IN  (IF a = b THEN Chr(a) ELSE Chr(a) \o "-" \o Chr(b))
                   \o (IF rest = "" THEN "" ELSE ", " \o rest)

\* C15: when 0x001B has decoded a mask, letter k (A = 0 .. Z = 25) is among the
\* letters of the statement exactly when bit 31-k of the mask is set, the type is
\* the builtin type of the low 6 bits, and the statement prints DEF<type> and the
\* maximal runs of consecutive selected letters in ascending order, joined by
\* ", ": all 26 letters print A-Z, the letters A, C, D print A, C-D.
C15_DefTypeMask ==
    [][Handled(\h001B) /\ error' = "" =>
          LET s == CurrentStatement(procedures')
          IN  /\ s.cls = "DefTypeDeclaration"
              /\ \A k \in 0..25 : k \in s.letters <=> Bit32(lastData', 31 - k)
              /\ s.letters \subseteq 0..25
              /\ s.as_type = get_builtin_type(version, lastData'[2] % 64)
              /\ PrintStatement(s) =
                    "DEF" \o get_short_name(s.as_type) \o " " \o RunsFrom(s.letters, 0)
              /\ s.letters = 0..25 =>
                    PrintStatement(s) = "DEF" \o get_short_name(s.as_type) \o " A-Z"
              /\ s.letters = {0, 2, 3} =>
                    PrintStatement(s) = "DEF" \o get_short_name(s.as_type) \o " A, C-D"]_vars

\* the mask 0xB0000001 (A, C, D; INTEGER) was decoded and prints DEFINT A, C-D
C15_Witness ==
    /\ lastOp = \h001B /\ error = ""
    /\ lastData = <<\hB000, \h0001>>
    /\ CurrentStatement(procedures).letters = {0, 2, 3}
    /\ PrintStatement(CurrentStatement(procedures)) = "DEFINT A, C-D"

\* the value of the bits shift .. shift+width-1 of a flags word
Field(flags, shift, width) == (flags \div (2 ^ shift)) % (2 ^ width)

\* the mode bits of an OPEN flags word that are set
ModeBits(flags) == { b \in {0, 1, 2, 3, 5} : Field(flags, b, 1) = 1 }

\* the mode of the lowest mode bit set
StatedMode(flags) ==
    LET b == CHOOSE x \in ModeBits(flags) : \A y \in ModeBits(flags) : x <= y
    IN  CASE b = 0 -> "INPUT" [] b = 1 -> "OUTPUT" [] b = 2 -> "RANDOM"
          [] b = 3 -> "APPEND" [] b = 5 -> "BINARY"

StatedAccess(flags) ==
    CASE Field(flags, 8, 2) = 1 -> "READ" [] Field(flags, 8, 2) = 2 -> "WRITE"
      [] Field(flags, 8, 2) = 3 -> "READ WRITE" [] OTHER -> "None"

StatedLock(flags) ==
    CASE Field(flags, 12, 2) = 1 -> "READ WRITE" [] Field(flags, 12, 2) = 2 -> "WRITE"
      [] Field(flags, 12, 2) = 3 -> "READ"
      [] Field(flags, 12, 3) = 4 -> "SHARED"
      [] OTHER -> "None"

\* C16: the statement 0x00C9/0x00CA puts for a flags word with a mode bit set
\* has the mode of the (lowest) mode bit set among 0x01, 0x02, 0x04, 0x08, 0x20,
\* the access of the bits 0x300 and the lock of the bits 0x3000, SHARED when of
\* the lock bits only 0x4000 is set; it prints OPEN file FOR mode [ACCESS a]
\* [SHARED | LOCK l] AS filenumber [LEN = n], with LEN exactly for 0x00CA.
C16_OpenFlags ==
    [][(Handled(\h00C9) \/ Handled(\h00CA)) /\ error' = "" =>
          LET s == CurrentStatement(procedures')
              flags == lastData'[1]
          IN  /\ s.cls = "OpenStatement"
              /\ ModeBits(flags) # {}
              /\ s.mode = StatedMode(flags)
              /\ s.access = StatedAccess(flags)
              /\ s.lock = StatedLock(flags)
              /\ IsNone(s.length) <=> lastOp' = \h00C9
              /\ PrintStatement(s) =
                    "OPEN " \o PrintExpr(s.filename) \o " FOR " \o StatedMode(flags)
                      \o (IF StatedAccess(flags) = "None" THEN ""
                          ELSE " ACCESS " \o StatedAccess(flags))
                      \o (IF StatedLock(flags) = "None" THEN ""
                          ELSE IF StatedLock(flags) = "SHARED" THEN " SHARED"
                          ELSE " LOCK " \o StatedLock(flags))
                      \o " AS " \o PrintExpr(s.filenumber)
                      \o (IF lastOp' = \h00CA THEN " LEN = " \o PrintExpr(s.length)
                          ELSE "")]_vars

\* 0x00CA on the flags 0x4320: BINARY, ACCESS READ WRITE, SHARED, with LEN
C16_Witness ==
    /\ lastOp = \h00CA /\ error = ""
    /\ lastData = <<\h4320>>
    /\ PrintStatement(CurrentStatement(procedures)) =
          "OPEN 0 FOR BINARY ACCESS READ WRITE SHARED AS 1 LEN = 1"

\* the comment of the line under construction
CurrentComment(procs) == Last(Last(procs).lines).comment

\* the first index of a 0x0D byte of the text that two more bytes follow (0: none)
FirstRun(text) ==
    LET runs == { i \in 1..(Len(text) - 2) : text[i] = \h0D }
    IN  IF runs = {} THEN 0 ELSE CHOOSE i \in runs : \A j \in runs : i <= j

\* the text with every triple 0x0D N X, found from left to right, replaced by N
\* copies of X
RECURSIVE Expanded(_)
Expanded(text) ==
    LET i == FirstRun(text)
    IN  IF i = 0 THEN text
        ELSE SubSeq(text, 1, i - 1) \o [k \in 1..text[i + 1] |-> text[i + 2]]
               \o Expanded(SubSeq(text, i + 3, Len(text)))

\* C17: the comment 0x0097 stores is the encoded text with every triple
\* 0x0D N X, found from left to right, replaced by N copies of X and every other
\* byte copied; a text without 0x0D is stored unchanged, and a triple with
\* N = 0 contributes nothing.
C17_ExpandComment ==
    [][Handled(\h0097) /\ error' = "" =>
          LET text == lastData'
              out == CurrentComment(procedures').text
          IN  /\ out = Expanded(text)
              /\ (\A i \in DOMAIN text : text[i] # \h0D) => out = text
              /\ \A x \in CommentBytes : text = <<\h0D, 0, x>> => out = <<>>
              /\ \A x \in CommentBytes :
                    Len(text) = 4 /\ SubSeq(text, 1, 3) = <<\h0D, 0, x>> => out = <<text[4]>>]_vars

\* the text 02, 0D 02 00 was expanded to 02 00 00
C17_Witness ==
    /\ lastOp = \h0097 /\ error = ""
    /\ lastData = <<2, \h0D, 2, 0>>
    /\ CurrentComment(procedures).text = <<2, 0, 0>>

\* the double literals without fractional part on the operand stack
WholeDoubles ==
    { i \in DOMAIN stack :
        /\ stack[i].cls = "FloatLiteral" /\ stack[i].suffix = "#"
        /\ ~stack[i].value.inf /\ stack[i].value.e >= 0 }

\* C18 as stated: the text of a double literal without fractional part contains
\* the suffix # and never the exponent marker E.
C18_SuffixKept ==
    \A i \in WholeDoubles :
        /\ HasChar(FloatLiteralPrint(stack[i]), "#")
        /\ ~HasChar(FloatLiteralPrint(stack[i]), "E")

\* C18: the text of a double literal without fractional part never contains E;
\* it either ends with the suffix # and has no exponent, or has an exponent
\* with the marker D and no suffix.
C18_SuffixOrExponent ==
    \A i \in WholeDoubles :
        LET text == FloatLiteralPrint(stack[i])
        IN  /\ ~HasChar(text, "E")
            /\ HasChar(text, "#") # HasChar(text, "D")
            /\ HasChar(text, "#") => SubSeq(text, Len(text), Len(text)) = "#"

\* the double literals 10^16 and 1 were pushed: they print 1D+16 and 1#
C18_Witness ==
    /\ Len(stack) = 2
    /\ 1 \in WholeDoubles /\ 2 \in WholeDoubles
    /\ FloatLiteralPrint(stack[1]) = "1D+16"
    /\ FloatLiteralPrint(stack[2]) = "1#"

\* the identifier the handler of base opcode op resolved, in the state it left
ResolvedName(op, stk, procs) ==
    CASE op = \h000B -> Last(stk)
      [] op \in {\h000E, \h0010} -> Last(stk).name
      [] op = \h0011 -> Last(stk).field
      [] op = \h000C -> CurrentStatement(procs).target
      [] op = \h000F -> CurrentStatement(procs).target.name
      [] op = \h0012 -> CurrentStatement(procs).target.field
      [] op = \h000D -> Last(CurrentStatement(procs).declarations).name

\* C19: in a QB40 file the index is the low 9 bits of the word and the parameter
\* its high 7 bits; every index o in 0x000B..0x003A runs the base handler
\* 0x000B + (o - 0x000B) div 6 with the type parameter (o - 0x000B) mod 6, and no
\* word runs a base handler above 0x0179.
C19_QB40Dispatch ==
    [][pc = "stream" /\ version = "QB40" /\ nops' = nops + 1 =>
        LET o == lastWord' % 512
            p == (o - \h000B) % 6
        IN  /\ o \in \h000B..\h003A =>
                /\ lastOp' = \h000B + (o - \h000B) \div 6
                /\ error' \in {"", "IndexError", "Statements cannot be combined",
                               "AssertionError", "AttributeError"}
                /\ error' = "" =>
                      ResolvedName(lastOp', stack', procedures').suffix =
                         IF p = 0 THEN "None" ELSE get_builtin_type("QB40", p)
            /\ o = 0 =>
                /\ lastOp' = 0
                /\ Last(Last(procedures').lines).indent = lastWord' \div 512
            /\ o \in \h0190..\h019A =>
                /\ lastOp' = \h0164
                /\ Last(stack') = DecimalInteger(o - \h0190)
            /\ lastOp' <= \h0179
            /\ lastOp' = -1 <=> error' = "Invalid opcode"]_vars

\* a line with the assignment of a literal to an identifier of type STRING
\* (index 0x0016, the sixth of the second group) was decoded in a QB40 file
C19_Witness ==
    /\ version = "QB40"
    /\ lastWord = \h0016
    /\ lastOp = \h000C
    /\ error = ""
    /\ CurrentStatement(procedures).cls = "AssignmentStatement"
    /\ CurrentStatement(procedures).target.suffix = "STRING"

\* C20: when the statement under construction is a single-line IF without ELSE
\* branch, an ELSE opcode makes its ElseStatement the else_branch and leaves the
\* then_branch as it was, and a simple statement put after that becomes the
\* action of the ELSE.
C20_ElseIntoElseBranch ==
    [][pc = "stream" /\ nops' = nops + 1 /\ error' = ""
       /\ CurrentPosition(procedures) # <<0, 0, 0>>
       /\ CurrentPosition(procedures') = CurrentPosition(procedures)
       /\ CurrentStatement(procedures).cls = "LineIfStatement"
       /\ CurrentStatement(procedures).then_branch.cls # "LineIfStatement"
       =>
       LET before == CurrentStatement(procedures)
           after == CurrentStatement(procedures')
       IN  /\ lastOp' \in {\h0049, \h004C} /\ IsNone(before.else_branch) =>
                /\ after.cls = "LineIfStatement"
                /\ ~IsNone(after.else_branch)
                /\ after.else_branch.cls = "ElseStatement"
                /\ after.then_branch = before.then_branch
           /\ lastOp' = \h005B /\ ~IsNone(before.else_branch) =>
                /\ after.else_branch.action.cls = "GotoStatement"
                /\ after.then_branch = before.then_branch]_vars

\* the innermost open branch of a statement: the statement itself unless it is a
\* single-line IF
RECURSIVE OpenBranch(_)
OpenBranch(s) ==
    IF s.cls # "LineIfStatement" THEN s
    ELSE IF IsNone(s.else_branch) THEN OpenBranch(s.then_branch)
    ELSE OpenBranch(s.else_branch.action)

\* C21: a PRINT item opcode finds or installs a PrintStatement in the current
\* line, also in the open branch of a single-line IF, and adds its item to it:
\* with an operand on the stack where one is needed it raises no error, and
\* consecutive item opcodes after a line IF fill one PrintStatement of that branch.
C21_KindInstalled ==
    [][pc = "stream" /\ nops' = nops + 1 /\ lastOp' \in \h0091..\h0096
       /\ (lastOp' \in \h0094..\h0096 => Len(stack) > 0)
       /\ CurrentPosition(procedures) # <<0, 0, 0>>
       /\ OpenBranch(CurrentStatement(procedures)).cls \in {"EmptyStatement", "PrintStatement"}
       => /\ error' = ""
          /\ OpenBranch(CurrentStatement(procedures')).cls = "PrintStatement"
          /\ lastOp' # \h0093 =>
                Len(OpenBranch(CurrentStatement(procedures')).items) =
                   (IF OpenBranch(CurrentStatement(procedures)).cls = "PrintStatement"
                    THEN Len(OpenBranch(CurrentStatement(procedures)).items) ELSE 0) + 1]_vars

\* C22: once CIRCLE has put its statement, the positional slots it read (from,
\* start, end, aspect) are unset, so that a later statement of the line can
\* deposit them again.
C22_SlotsConsumed ==
    [][(Handled(\h009F) \/ Handled(\h00A0)) /\ error' = ""
       => \A a \in positional_arguments' :
             a.position \notin {"from", "start", "end", "aspect"}]_vars

\* the change of the stack depth stated for a builtin-table entry whose count in
\* the stream is count
StatedDelta(e, count) ==
    LET n == IF "counted" \in e[5] THEN count ELSE e[4]
    IN  IF e[2] THEN (IF n >= 0 THEN 1 - n ELSE 1)
        ELSE IF "assignment" \in e[5] THEN -((IF n > 0 THEN n ELSE 0) + 1)
        ELSE -n

\* the operands the entry takes
StatedOperands(e, count) ==
    LET n == IF "counted" \in e[5] THEN count ELSE e[4]
    IN  (IF n > 0 THEN n ELSE 0) + (IF "assignment" \in e[5] THEN 1 ELSE 0)

\* a context with six operands on the stack and an empty line to take a statement
SixOperands ==
    [Cxt(Plenty, Plenty) EXCEPT
        !.stack = <<DecimalInteger(0), DecimalInteger(1), DecimalInteger(2),
                    DecimalInteger(3), DecimalInteger(4), DecimalInteger(5)>>,
        !.procedures = <<[Procedure(0, FALSE) EXCEPT !.lines = <<Line(None, 0)>>]>>]

\* C23: given enough operands, an opcode of the builtin table changes the depth of
\* the operand stack by the delta of its entry (function: 1 - n, or +1 for the
\* count -1; statement: -n; assignment form: -(max(n, 0) + 1); n read from the
\* stream for a count of None); a binary operator changes it by -1, a unary
\* operator, parentheses, BYVAL and SEG by 0, and a literal by +1.
C23_StackDelta ==
    /\ [](pc = "start" =>
            \A e \in BuiltinTable : \A count \in 0..3 :
               Len(HBuiltin(SixOperands, e[1], count).stack) = 6 + StatedDelta(e, count))
    /\ [][pc = "stream" /\ nops' = nops + 1 /\ lastOp' # -1 =>
            LET d == Len(stack)
                o == lastOp'
            IN  /\ InRanges(o, BUILTINS) =>
                     LET e == Entry(o)
                         count == IF "counted" \in e[5] THEN lastData'[1] ELSE 0
                     IN  d >= StatedOperands(e, count) =>
                            Len(stack') = d + StatedDelta(e, count)
                /\ o \in BinaryOpcodes /\ d >= 2 => Len(stack') = d - 1
                /\ o \in {\h0174, \h0178, \h016E, \h0025, \h0036} /\ d >= 1 =>
                     Len(stack') = d
                /\ o = \h0164 => Len(stack') = d + 1]_vars

\* FILEATTR took the two operands of the stack and left its call
C23_Witness ==
    /\ lastOp = \h011B
    /\ error = ""
    /\ Len(stack) = 1
    /\ Last(stack).cls = "BuiltinFunctionCall"
    /\ Len(Last(stack).args.items) = 2

\* an assignment-form builtin has put its statement, having found enough operands
AssignedBuiltin ==
    /\ pc = "stream" /\ nops' = nops + 1 /\ error' = ""
    /\ lastOp' \in AssignmentWords
    /\ Len(stack) >= StatedOperands(Entry(lastOp'), 0)

DeclarationStatements(procs) ==
    { pos \in Positions(procs) : StatementAt(procs, pos).cls = "VariableDeclarationStatement" }

Declarators(procs) ==
    { <<pos, i>> \in DeclarationStatements(procs) \X (1..(limit + 1)) :
        i \in DOMAIN StatementAt(procs, pos).declarations }

DeclaratorAt(procs, d) == StatementAt(procs, d[1]).declarations[d[2]]

TypeOpcodes == {\h0015, \h0016, \h017C}

\* the current statement ends with a nameless declarator that has a type
PendingTyped(procs) ==
    /\ CurrentPosition(procs) \in DeclarationStatements(procs)
    /\ CurrentStatement(procs).declarations # <<>>
    /\ IsNone(Last(CurrentStatement(procs).declarations).name)
    /\ Last(CurrentStatement(procs).declarations).as_type # "None"

\* C26: a type opcode that finds the pending nameless declarator with a type
\* raises an error (the assertion of set_type, unless the operands are cut off
\* or name no type) and leaves the statement as it was, and no step changes the
\* type a declarator has.
C26_TypeSetOnce ==
    [][/\ (pc = "stream" /\ nops' = nops + 1 /\ lastOp' \in TypeOpcodes
           /\ PendingTyped(procedures))
          => /\ error' \in {"AssertionError", "Invalid built-in type", "struct.error"}
             /\ CurrentStatement(procedures') = CurrentStatement(procedures)
       /\ \A d \in Declarators(procedures) :
             DeclaratorAt(procedures, d).as_type # "None" =>
                /\ d \in Declarators(procedures')
                /\ DeclaratorAt(procedures', d).as_type = DeclaratorAt(procedures, d).as_type]_vars

\* a second type opcode was refused on the declarator that has the type LONG
C26_Witness ==
    /\ lastOp \in TypeOpcodes /\ error = "AssertionError"
    /\ PendingTyped(procedures)
    /\ Last(CurrentStatement(procedures).declarations).as_type = "LONG"

\* some DEF FN header decoded so far has neither its body nor an END DEF
OpenDefFn(procs) == \E p \in DOMAIN procs : ~Closed(procs[p])

\* C27: the EXIT statement 0x0055 puts has the kind DEF exactly when a DEF FN
\* header has not been closed by END DEF (0x004F) or by its body (0x0026), and the
\* kind of the current procedure otherwise.
C27_ExitKind ==
    [][Handled(\h0055) /\ error' = "" /\ CurrentStatement(procedures').cls = "ExitStatement"
       => CurrentStatement(procedures').kind =
             (IF OpenDefFn(procedures) THEN "DEF" ELSE Last(procedures).kind)]_vars

\* the statement under construction is the placeholder of LET
LetPending(procs) ==
    /\ CurrentPosition(procs) # <<0, 0, 0>>
    /\ CurrentStatement(procs) = AssignmentStatement(None, None, "LET")

\* C28: an assignment opcode of any of the four forms that finds the placeholder
\* of LET and its operands on the stack replaces the placeholder by its
\* assignment, with the keyword LET.
C28_LetMerges ==
    [][(pc = "stream" /\ nops' = nops + 1 /\ lastOp' \in TargetWords
        /\ LetPending(procedures) /\ Len(stack) >= 2 /\ error' # "IndexError")
       => /\ error' = ""
          /\ CurrentPosition(procedures') = CurrentPosition(procedures)
          /\ CurrentStatement(procedures').cls = "AssignmentStatement"
          /\ CurrentStatement(procedures').keyword = "LET"
          /\ ~IsNone(CurrentStatement(procedures').target)]_vars

BeginLineOpcodes == {\h0000, \h0004, \h0005}

\* the label and the indent the begin-line opcode of the step carried
GivenLabel ==
    IF lastOp' = \h0000 THEN None
    ELSE Identifier(variable_names'[lastOffset'], lastOffset')

GivenIndent ==
    CASE lastOp' = \h0000 -> Dispatch(version, lastWord').parameter
      [] lastOp' = \h0004 -> 0
      [] lastOp' = \h0005 -> lastData'[1]

\* C29: a begin-line opcode leaves the operand stack and the positional
\* arguments empty, and unless it raised an error it appended one line to the
\* current procedure, with one empty statement, its label and its indent; no
\* other opcode adds a line.
C29_LineStartsClean ==
    [][pc = "stream" /\ nops' = nops + 1 =>
         IF lastOp' \in BeginLineOpcodes
         THEN /\ stack' = <<>>
              /\ positional_arguments' = {}
              /\ error' = "" =>
                    /\ Len(procedures') = Len(procedures)
                    /\ Last(procedures').lines =
                          Append(Last(procedures).lines,
                                 [statements |-> <<EmptyStatement>>, label |-> GivenLabel,
                                  indent |-> GivenIndent, comment |-> None])
              /\ error' # "" => Last(procedures').lines = Last(procedures).lines
         ELSE Len(Last(procedures').lines) = Len(Last(procedures).lines)]_vars

\* after a first line a second one was begun, with a label and the indent 2
C29_Witness ==
    /\ lastOp = \h0005 /\ error = ""
    /\ Len(Last(procedures).lines) = 2
    /\ Last(Last(procedures).lines).indent = 2
    /\ ~IsNone(Last(Last(procedures).lines).label)
    /\ table_reads # <<>>

\* parse_binary has returned, or has raised outside of its try block
Ended == pc \in {"returned", "fatal"}

\* how far the decode has come in parse_binary
Rank ==
    CASE pc = "start" -> 0 [] pc = "header" -> 1 [] pc = "stream" -> 2
      [] pc = "records" -> 3 [] OTHER -> 4

\* what is left to do: the bytes behind the read position, then the rank
Remaining == 4 * (file_end - tell) + (4 - Rank)

\* C30: every opcode whose handler is entered moves the read position forward by
\* 2 bytes or more, no step inside a stream moves it backwards (a name lookup
\* restores it), every procedure record that is followed by its stream moves it
\* forward by 22 bytes or more; every step brings the decode nearer to its end
\* (Remaining falls and is never negative), so it has finitely many steps, and
\* it can stop only when parse_binary has ended: with an error, or with the last
\* stream at its end and no record left.
C30_ForwardProgress ==
    /\ [][/\ (pc = "stream" /\ nops' = nops + 1) => tell' >= tell + 2
          /\ pc = "stream" => tell' >= tell
          /\ (pc = "records" /\ pc' = "stream") => tell' >= tell + 22
          /\ Remaining' < Remaining]_vars
    /\ [](/\ Remaining >= 0
          /\ pc \in {"start", "header", "stream", "records", "returned", "fatal"}
          /\ pc = "returned" =>
                \/ error # ""
                \/ (tell >= stream_end /\ ~RecordFollows(BytesFrom(tell))))

\* a file was decoded to its end without an error: two streams, and a name was
\* looked up in the second
C30_Witness ==
    /\ pc = "returned" /\ error = ""
    /\ Len(procedures) = 2
    /\ lastOp \in {\h000B, \h0004}
    /\ table_reads # <<>>
    /\ tell = file_end
====
